---- MODULE Spec2Model ----
(***************************************************************************)
(* Model of the kontext-engine store (src/storage/db.ts, schema.ts,        *)
(* vectors.ts), the index pipeline (src/cli/commands/init.ts), the watch   *)
(* re-index pipeline (src/cli/commands/watch.ts), and of the search and    *)
(* configuration functions (dependencyTrace, fusion.ts, classify.ts,       *)
(* chunker.ts, the config command).                                        *)
(*                                                                         *)
(* The specifications share the variables:                                 *)
(*   StoreSpec       calls of the KontextDatabase interface in any order   *)
(*   Spec            index runs (runInit) over an edited file tree         *)
(*   GateSpec        index runs (runInit) under a changing embedder config *)
(*   WatchSpec       overlapping watch re-index batches (reindexChanges)   *)
(*   SessionSpec     a runWatch session from start to stop                 *)
(*   TraceSpec       dependencyTrace on a dependencies table               *)
(*   FuseSpec        fusionMerge and fusionMergeWithPathBoost              *)
(*   WeightSpec      the strategy weights runStrategies hands to fusion    *)
(*   ChunkSpec       chunkFile on the AST nodes of a file                  *)
(*   ConfigFileSpec  runConfigSet on .ctx/config.json                      *)
(*   LoadSpec        interleaved loadEmbedder calls on the embedder cache  *)
(*   RetrySpec       fetchWithRetry against a scripted server              *)
(*   WatcherSpec     a createWatcher handle: events, debounce, stop        *)
(***************************************************************************)
EXTENDS Integers, Sequences, FiniteSets, TLC

VARIABLES
  fs,       \* file tree: path -> content, or NoFile
  config,   \* embedder section of .ctx/config.json
  store,    \* the database file as the writing connection sees it
  txSnap,   \* committed state while a db.transaction is open, else NoTx
  conn,     \* per connection: open flag, sqlite last_insert_rowid, dimensions
  ix,       \* the running runInit invocation
  prev,     \* history: how the previous runInit ended
  api,      \* history: the last call made on the KontextDatabase interface
  wb,       \* watch re-index batches in flight
  wlog,     \* history: order of store writers in the watch process
  fn        \* the call of a pure function under study: inputs and result

vars == <<fs, config, store, txSnap, conn, ix, prev, api, wb, wlog, fn>>

\* ------------------------------------------------------------------------
\* Bounds
\* ------------------------------------------------------------------------
MaxFileId == 2
MaxChunkId == 3
MaxApiFileId == 2
MaxApiChunkId == 2
MaxDepId == 1
MaxBatches == 2

\* ------------------------------------------------------------------------
\* Program constants
\* ------------------------------------------------------------------------
SCHEMA_V == 1

\* ------------------------------------------------------------------------
\* Values
\* ------------------------------------------------------------------------
NoFile == "none"
NoTx == <<>>
NoEmbedder == [provider |-> "", model |-> "", dimensions |-> 0]
NoPath == "nopath"

\* project-relative paths, in the lexicographic order Array.sort gives them
PathOrder == <<"a.ts", "b.ts">>
Paths == {PathOrder[i] : i \in 1..Len(PathOrder)}

\* file contents: "e" yields no chunk, "s" one chunk, "t" two chunks
Contents == {"e", "s", "t"}

\* embedder configurations: a base one and one differing in each field
CfgBase == [provider |-> "local", model |-> "m1", dimensions |-> 2]
CfgDims == [provider |-> "local", model |-> "m1", dimensions |-> 3]
Configs ==
  {CfgBase, [CfgBase EXCEPT !.provider = "voyage"], [CfgBase EXCEPT !.model = "m2"], CfgDims}

ConnIds == {"index", "watch", "api"}

\* sha256 of a file's bytes: distinct contents have distinct digests
hashFileContent(c) == <<"sha256", c>>

\* chunkFile(parseFile(file)): the chunk texts of a file, in line order
chunkFile(c) ==
  IF c = "s" THEN <<"s1">>
  ELSE IF c = "t" THEN <<"t1", "t2">>
  ELSE <<>>

\* Array.prototype.sort on a list of paths
SortPaths(S) == SelectSeq(PathOrder, LAMBDA p : p \in S)

Range(q) == {q[i] : i \in 1..Len(q)}

\* ------------------------------------------------------------------------
\* The store: tables of schema.ts, each statement autocommitted
\* ------------------------------------------------------------------------
\* the database file before createDatabase has ever run on it
NoDatabase ==
  [schema |-> 0, vecDim |-> 0, embedder |-> NoEmbedder,
   files |-> {}, chunks |-> {}, fts |-> {}, deps |-> {}, vectors |-> {},
   seqFiles |-> 0, seqChunks |-> 0, seqDeps |-> 0]

getMetaVersion(s) == s.schema

\* initializeSchema: returns the store and the rowid of the meta insert
\* (0 when nothing was inserted)
initializeSchema(s, dimensions) ==
  IF getMetaVersion(s) >= SCHEMA_V
  THEN [s |-> s, lr |-> 0]
  ELSE [s |-> [s EXCEPT !.schema = SCHEMA_V, !.vecDim = dimensions], lr |-> 1]

getFile(s, path) == {f \in s.files : f.path = path}

getAllFilePaths(s) == {f.path : f \in s.files}

getFileCount(s) == Cardinality(s.files)
getChunkCount(s) == Cardinality(s.chunks)
getVectorCount(s) == Cardinality(s.vectors)

ChunkIdsByFile(s, fileId) == {c.id : c \in {x \in s.chunks : x.fileId = fileId}}

\* vectors.ts deleteVectorsByChunkIds
deleteVectorsByChunkIds(s, ids) == [s EXCEPT !.vectors = @ \ ids]

\* DELETE FROM chunks for the rows ids: trigger chunks_fts_ad removes the
\* FTS entries, ON DELETE CASCADE removes dependency rows with an endpoint
\* among them
DeleteChunkRows(s, ids) ==
  [s EXCEPT !.chunks = {c \in @ : c.id \notin ids},
            !.fts = {e \in @ : e.rowid \notin ids},
            !.deps = {d \in @ : d.source \notin ids /\ d.target \notin ids}]

deleteChunksByFile(s, fileId) ==
  LET ids == ChunkIdsByFile(s, fileId)
  IN DeleteChunkRows(deleteVectorsByChunkIds(s, ids), ids)

\* a deleteFile that leaves the vectors of the file's chunks behind
deleteFile_KeepVectors(s, path) ==
  LET rows == getFile(s, path)
      fids == {f.id : f \in rows}
      cids == {c.id : c \in {x \in s.chunks : x.fileId \in fids}}
  IN [DeleteChunkRows(s, cids) EXCEPT !.files = {f \in @ : f.path # path}]

\* deleteFile: vector cleanup, then DELETE FROM files (CASCADE to chunks)
deleteFile(s, path) ==
  LET rows == getFile(s, path)
      fids == {f.id : f \in rows}
      cids == {c.id : c \in {x \in s.chunks : x.fileId \in fids}}
      s1 == deleteVectorsByChunkIds(s, cids)
  IN [DeleteChunkRows(s1, cids) EXCEPT !.files = {f \in @ : f.path # path}]

\* upsertFile: INSERT .. ON CONFLICT(path) DO UPDATE.  The update path
\* changes one row and leaves sqlite's last_insert_rowid at the rowid of the
\* connection's most recent INSERT; lr is that value before the call.
upsertFile(s, lr, path, hash) ==
  IF getFile(s, path) = {}
  THEN LET id == s.seqFiles + 1
       IN [s |-> [s EXCEPT !.files = @ \cup {[id |-> id, path |-> path, hash |-> hash]},
                           !.seqFiles = id],
           lr |-> id, ret |-> id]
  ELSE LET existing == CHOOSE f \in getFile(s, path) : TRUE
           changes == 1
           lastInsertRowid == lr
       IN [s |-> [s EXCEPT !.files = {IF f.path = path THEN [f EXCEPT !.hash = hash] ELSE f : f \in @}],
           lr |-> lr,
           ret |-> IF changes > 0 /\ lastInsertRowid # 0
                   THEN lastInsertRowid
                   ELSE existing.id]

\* REFERENCES files(id) with foreign_keys = ON
ChunkInsertAllowed(s, fileId) == \E f \in s.files : f.id = fileId

\* an insert of a chunk row without the trigger chunks_fts_ai
insertChunk_NoFts(s, fileId, text, src) ==
  LET id == s.seqChunks + 1
  IN [s |-> [s EXCEPT !.chunks = @ \cup {[id |-> id, fileId |-> fileId, text |-> text,
                                          src |-> src]},
                      !.seqChunks = id],
      lr |-> id, ret |-> id]

\* one stmtInsertChunk.run of insertChunks; trigger chunks_fts_ai mirrors the
\* row into chunks_fts.  src is a history field: the path the chunk was
\* produced from.
insertChunk(s, fileId, text, src) ==
  LET id == s.seqChunks + 1
  IN [s |-> [s EXCEPT !.chunks = @ \cup {[id |-> id, fileId |-> fileId, text |-> text,
                                          src |-> src]},
                      !.fts = @ \cup {[rowid |-> id, text |-> text]},
                      !.seqChunks = id],
      lr |-> id, ret |-> id]

\* insertChunks: the loop over the chunk list, ids in order
RECURSIVE insertChunks(_, _, _, _, _)
insertChunks(s, lr, fileId, texts, src) ==
  IF texts = <<>>
  THEN [s |-> s, lr |-> lr, ret |-> <<>>]
  ELSE LET one == insertChunk(s, fileId, Head(texts), src)
           rest == insertChunks(one.s, one.lr, fileId, Tail(texts), src)
       IN [s |-> rest.s, lr |-> rest.lr, ret |-> <<one.ret>> \o rest.ret]

\* REFERENCES chunks(id) on both endpoints
DepInsertAllowed(s, source, target) ==
  /\ \E c \in s.chunks : c.id = source
  /\ \E c \in s.chunks : c.id = target

insertDependency(s, source, target) ==
  LET id == s.seqDeps + 1
  IN [s |-> [s EXCEPT !.deps = @ \cup {[id |-> id, source |-> source, target |-> target]},
                      !.seqDeps = id],
      lr |-> id]

\* vec0 rejects a second row with the same rowid and a vector whose length
\* is not the table's
VectorInsertAllowed(s, chunkId, dim) == chunkId \notin s.vectors /\ dim = s.vecDim

\* vectors.ts insertVector
insertVector(s, chunkId) ==
  [s |-> [s EXCEPT !.vectors = @ \cup {chunkId}], lr |-> chunkId]

\* searchVectors / searchFTS: the rowids a KNN or MATCH query can return
searchVectors(s) == s.vectors
searchFTS(s, text) == {e.rowid : e \in {x \in s.fts : x.text = text}}

\* what a connection other than the writer reads (WAL: the last commit)
ReaderView == IF txSnap = NoTx THEN store ELSE txSnap[1]

\* db.transaction(fn) when fn throws: ROLLBACK to the state at BEGIN
transactionRollback_Keep(working, snapshot) == working

transactionRollback(working, snapshot) == snapshot

\* ------------------------------------------------------------------------
\* Idle values of the process variables
\* ------------------------------------------------------------------------
ClosedConn == [open |-> FALSE, lastRowid |-> 0, dim |-> 0]

IxIdle ==
  [pc |-> "idle", cfg |-> CfgBase, skip |-> FALSE,
   discovered |-> {}, added |-> {}, modified |-> {}, deleted |-> {}, unchanged |-> {},
   hashes |-> [p \in Paths |-> <<>>],
   delq |-> <<>>, todo |-> <<>>, nodes |-> <<>>, fileId |-> 0, ids |-> <<>>,
   acm |-> <<>>, vi |-> 0, seq0 |-> 0, err |-> "none",
   failedAt |-> "none", wrote |-> FALSE, skipped |-> FALSE,
   afterDone |-> FALSE, afterClean |-> FALSE,
   produced |-> [p \in Paths |-> -1]]

ApiNone == [op |-> "none", path |-> NoPath, ret |-> 0, oldId |-> 0, oldChunks |-> {},
            oldText |-> {}, hadVec |-> FALSE, hadDep |-> FALSE]

\* history value after a call no property looks back at
ApiOther == [ApiNone EXCEPT !.op = "other"]

FnNone == [op |-> "none"]

PrevNone == [done |-> FALSE, clean |-> FALSE]

WlogNone == [last |-> 0, preempted |-> {}, delivered |-> 0, running |-> 0,
             skipEmbedding |-> TRUE, phase |-> "none"]

\* ------------------------------------------------------------------------
\* StoreSpec: the KontextDatabase interface called in any order on one
\* connection
\* ------------------------------------------------------------------------
StoreInit ==
  LET created == initializeSchema(NoDatabase, CfgBase.dimensions)
  IN /\ fs = [p \in Paths |-> NoFile]
     /\ config = CfgBase
     /\ store = created.s
     /\ txSnap = NoTx
     /\ conn = [c \in ConnIds |-> IF c = "api"
                                  THEN [open |-> TRUE, lastRowid |-> created.lr,
                                        dim |-> CfgBase.dimensions]
                                  ELSE ClosedConn]
     /\ ix = IxIdle
     /\ prev = PrevNone
     /\ api = ApiNone
     /\ wb = <<>>
     /\ wlog = WlogNone
     /\ fn = FnNone

ApiFrame == UNCHANGED <<fs, config, txSnap, ix, prev, wb, wlog, fn>>

ApiUpsertFile ==
  \E p \in Paths, c \in {"s"} :
    LET existing == getFile(store, p)
        r == upsertFile(store, conn["api"].lastRowid, p, hashFileContent(c))
    IN /\ store.seqFiles < MaxApiFileId \/ existing # {}
       /\ store' = r.s
       /\ conn' = [conn EXCEPT !["api"].lastRowid = r.lr]
       /\ api' = [ApiNone EXCEPT !.op = "upsertFile", !.path = p, !.ret = r.ret,
                                 !.oldId = IF existing = {} THEN 0
                                           ELSE (CHOOSE f \in existing : TRUE).id]
       /\ ApiFrame

ApiInsertChunks ==
  \E f \in store.files, texts \in {<<"s1">>, <<"t1", "t2">>} :
    LET r == insertChunks(store, conn["api"].lastRowid, f.id, texts, f.path)
    IN /\ store.seqChunks + Len(texts) <= MaxApiChunkId
       /\ store' = r.s
       /\ conn' = [conn EXCEPT !["api"].lastRowid = r.lr]
       /\ api' = ApiOther
       /\ ApiFrame

ApiInsertVector ==
  \E c \in store.chunks :
    LET r == insertVector(store, c.id)
    IN /\ VectorInsertAllowed(store, c.id, conn["api"].dim)
       /\ store' = r.s
       /\ conn' = [conn EXCEPT !["api"].lastRowid = r.lr]
       /\ api' = ApiOther
       /\ ApiFrame

ApiInsertDependency ==
  \E a \in store.chunks, b \in store.chunks :
    LET r == insertDependency(store, a.id, b.id)
    IN /\ store.seqDeps < MaxDepId
       /\ a.id # b.id
       /\ DepInsertAllowed(store, a.id, b.id)
       /\ store' = r.s
       /\ conn' = [conn EXCEPT !["api"].lastRowid = r.lr]
       /\ api' = ApiOther
       /\ ApiFrame

ApiDeleteFile ==
  \E p \in Paths :
    LET rows == getFile(store, p)
        fids == {f.id : f \in rows}
        old == {c \in store.chunks : c.fileId \in fids}
        cids == {c.id : c \in old}
    IN /\ store' = deleteFile(store, p)
       /\ api' = [ApiNone EXCEPT !.op = "deleteFile", !.path = p,
                                 !.oldId = IF rows = {} THEN 0 ELSE (CHOOSE f \in rows : TRUE).id,
                                 !.oldChunks = cids,
                                 !.oldText = {c.text : c \in old},
                                 !.hadVec = (cids \cap store.vectors # {}),
                                 !.hadDep = (\E d \in store.deps : d.source \in cids \/ d.target \in cids)]
       /\ UNCHANGED conn
       /\ ApiFrame

ApiDeleteChunksByFile ==
  \E f \in store.files :
    /\ store' = deleteChunksByFile(store, f.id)
    /\ api' = ApiOther
    /\ UNCHANGED conn
    /\ ApiFrame

\* close() and createDatabase() again on the same file: a new connection
ApiReopen ==
  LET r == initializeSchema(store, conn["api"].dim)
  IN /\ conn["api"].lastRowid # r.lr
     /\ store' = r.s
     /\ conn' = [conn EXCEPT !["api"].lastRowid = r.lr]
     /\ api' = ApiOther
     /\ ApiFrame

StoreNext ==
  \/ ApiUpsertFile
  \/ ApiInsertChunks
  \/ ApiInsertVector
  \/ ApiInsertDependency
  \/ ApiDeleteFile
  \/ ApiDeleteChunksByFile
  \/ ApiReopen

StoreSpec == StoreInit /\ [][StoreNext]_vars

\* ------------------------------------------------------------------------
\* Spec: runInit, one invocation at a time, over a file tree that is edited
\* between and during runs.  Every store write may fail (disk full, I/O
\* error); a failed statement changes nothing and throws.
\* ------------------------------------------------------------------------
isSameEmbedderConfig_NoDims(a, b) ==
  a.provider = b.provider /\ a.model = b.model

isSameEmbedderConfig(a, b) ==
  /\ a.provider = b.provider
  /\ a.model = b.model
  /\ a.dimensions = b.dimensions

getIndexEmbedder(s) == s.embedder

\* writes the meta row index_embedder (the row after schema_version)
setIndexEmbedder(s, cfg) == [s |-> [s EXCEPT !.embedder = cfg], lr |-> 2]

\* a change detector that reports an unchanged file as modified
computeChanges_NoUnchanged(discovered, tree, s) ==
  LET known == getAllFilePaths(s)
      added == {p \in discovered : p \notin known}
      modified == discovered \ added
  IN [added |-> added, modified |-> modified, unchanged |-> {},
      deleted |-> known \ discovered,
      hashes |-> [p \in Paths |-> IF p \in added \cup modified
                                   THEN hashFileContent(tree[p]) ELSE <<>>]]

\* computeChanges: classify every discovered file by its content hash
computeChanges(discovered, tree, s) ==
  LET existing(p) == getFile(s, p)
      added == {p \in discovered : existing(p) = {}}
      modified == {p \in discovered \ added :
                     \E f \in existing(p) : f.hash # hashFileContent(tree[p])}
      unchanged == (discovered \ added) \ modified
      deleted == {p \in getAllFilePaths(s) : p \notin discovered}
  IN [added |-> added, modified |-> modified, unchanged |-> unchanged,
      deleted |-> deleted,
      hashes |-> [p \in Paths |-> IF p \in added \cup modified
                                   THEN hashFileContent(tree[p]) ELSE <<>>]]

IxRest == {"idle", "done", "failed"}

IxFrame == UNCHANGED <<fs, config, api, wb, wlog, fn>>

\* the throw path of runInit: finally { db.close() }
IxThrow(err) ==
  /\ ix' = [IxIdle EXCEPT !.pc = "failed", !.err = err, !.failedAt = ix.pc,
                          !.cfg = ix.cfg, !.wrote = ix.wrote, !.produced = ix.produced,
                          !.seq0 = ix.seq0,
                          !.acm = IF ix.pc = "vectors" THEN ix.acm ELSE <<>>,
                          !.vi = IF ix.pc = "vectors" THEN ix.vi ELSE 0]
  /\ conn' = [conn EXCEPT !["index"] = ClosedConn]
  /\ prev' = PrevNone

AfterDelete(delq, todo) ==
  IF delq # <<>> THEN "delete" ELSE IF todo # <<>> THEN "file" ELSE "embed"

AfterFile(todo) == IF todo # <<>> THEN "file" ELSE "embed"

\* lines 114-130: read the config, createDatabase(dbPath, dimensions)
IxOpen ==
  \E skip \in BOOLEAN :
    LET r == initializeSchema(store, config.dimensions)
    IN /\ ix.pc \in IxRest
       /\ store' = r.s
       /\ conn' = [conn EXCEPT !["index"] =
                     [open |-> TRUE, lastRowid |-> r.lr, dim |-> config.dimensions]]
       /\ ix' = [IxIdle EXCEPT !.pc = "gate", !.cfg = config, !.skip = skip,
                               !.wrote = (r.lr # 0), !.seq0 = store.seqChunks,
                               !.afterDone = prev.done, !.afterClean = prev.clean]
       /\ UNCHANGED <<txSnap, prev>>
       /\ IxFrame

\* lines 132-151: the index-embedder gate
IxGate ==
  LET existingEmbedder == getIndexEmbedder(store)
      isEmptyIndex == getFileCount(store) = 0 /\ getChunkCount(store) = 0
                        /\ getVectorCount(store) = 0
  IN /\ ix.pc = "gate"
     /\ IF existingEmbedder # NoEmbedder
        THEN IF ~isSameEmbedderConfig(existingEmbedder, ix.cfg)
             THEN IxThrow("EmbedderMismatch") /\ UNCHANGED store
             ELSE /\ ix' = [ix EXCEPT !.pc = "discover"]
                  /\ UNCHANGED <<store, conn, prev>>
        ELSE IF isEmptyIndex
             THEN \E ok \in BOOLEAN :
                    IF ok
                    THEN LET r == setIndexEmbedder(store, ix.cfg)
                         IN /\ store' = r.s
                            /\ conn' = [conn EXCEPT !["index"].lastRowid = r.lr]
                            /\ ix' = [ix EXCEPT !.pc = "discover", !.wrote = TRUE]
                            /\ UNCHANGED prev
                    ELSE IxThrow("DbWriteFailed") /\ UNCHANGED store
             ELSE /\ ix' = [ix EXCEPT !.pc = "discover"]
                  /\ UNCHANGED <<store, conn, prev>>
     /\ UNCHANGED txSnap
     /\ IxFrame

\* lines 153-193: discoverFiles, computeChanges, filesToProcess
IxDiscover ==
  LET discovered == {p \in Paths : fs[p] # NoFile}
      changes == computeChanges(discovered, fs, store)
      delq == SortPaths(changes.deleted)
      todo == SortPaths(changes.added) \o SortPaths(changes.modified)
  IN /\ ix.pc = "discover"
     /\ ix' = [ix EXCEPT !.pc = AfterDelete(delq, todo),
                         !.discovered = discovered,
                         !.added = changes.added, !.modified = changes.modified,
                         !.deleted = changes.deleted, !.unchanged = changes.unchanged,
                         !.hashes = changes.hashes,
                         !.delq = delq, !.todo = todo]
     /\ UNCHANGED <<store, txSnap, conn, prev>>
     /\ IxFrame

\* lines 196-198: db.deleteFile for the next deleted path.  A failure of the
\* second statement leaves the vectors already deleted.
IxDeleteRemoved ==
  /\ ix.pc = "delete"
  /\ LET p == Head(ix.delq)
         cids == UNION {ChunkIdsByFile(store, f.id) : f \in getFile(store, p)}
     IN \E outcome \in {"ok", "failFirst", "failSecond"} :
          IF outcome = "ok"
          THEN /\ store' = deleteFile(store, p)
               /\ ix' = [ix EXCEPT !.delq = Tail(@), !.wrote = TRUE,
                                   !.pc = AfterDelete(Tail(ix.delq), ix.todo)]
               /\ UNCHANGED <<conn, prev>>
          ELSE /\ store' = IF outcome = "failSecond"
                           THEN deleteVectorsByChunkIds(store, cids) ELSE store
               /\ IxThrow("DbWriteFailed")
  /\ UNCHANGED txSnap
  /\ IxFrame

\* lines 210-218: getFile, deleteChunksByFile for the next file to process
IxBeginFile ==
  /\ ix.pc = "file"
  /\ LET p == Head(ix.todo)
         existingFile == getFile(store, p)
     IN IF existingFile = {}
        THEN /\ ix' = [ix EXCEPT !.pc = "parse"]
             /\ UNCHANGED <<store, conn, prev>>
        ELSE LET id == (CHOOSE f \in existingFile : TRUE).id
             IN \E outcome \in {"ok", "failFirst", "failSecond"} :
                  IF outcome = "ok"
                  THEN /\ store' = deleteChunksByFile(store, id)
                       /\ ix' = [ix EXCEPT !.pc = "parse", !.wrote = TRUE]
                       /\ UNCHANGED <<conn, prev>>
                  ELSE /\ store' = IF outcome = "failSecond"
                                   THEN deleteVectorsByChunkIds(store, ChunkIdsByFile(store, id))
                                   ELSE store
                       /\ IxThrow("DbWriteFailed")
  /\ UNCHANGED txSnap
  /\ IxFrame

\* lines 220-230: parseFile and chunkFile; a parse error skips the file
IxParse ==
  /\ ix.pc = "parse"
  /\ LET p == Head(ix.todo)
     IN \E parsed \in BOOLEAN :
          IF parsed
          THEN ix' = [ix EXCEPT !.pc = "upsert",
                                !.nodes = IF fs[p] = NoFile THEN <<>> ELSE chunkFile(fs[p])]
          ELSE ix' = [ix EXCEPT !.pc = AfterFile(Tail(ix.todo)), !.todo = Tail(@),
                                !.skipped = TRUE]
  /\ UNCHANGED <<store, txSnap, conn, prev>>
  /\ IxFrame

\* lines 233-238: upsertFile; with no chunk to insert the loop moves on
IxUpsert ==
  /\ ix.pc = "upsert"
  /\ LET p == Head(ix.todo)
         r == upsertFile(store, conn["index"].lastRowid, p, ix.hashes[p])
         full == getFile(store, p) = {} /\ store.seqFiles >= MaxFileId
     IN \E ok \in BOOLEAN :
          IF ok /\ ~full
          THEN /\ store' = r.s
               /\ conn' = [conn EXCEPT !["index"].lastRowid = r.lr]
               /\ ix' = [ix EXCEPT !.fileId = r.ret, !.ids = <<>>, !.wrote = TRUE,
                                   !.produced[p] = Len(ix.nodes),
                                   !.pc = IF ix.nodes = <<>>
                                          THEN AfterFile(Tail(ix.todo)) ELSE "chunks",
                                   !.todo = IF ix.nodes = <<>> THEN Tail(@) ELSE @]
               /\ UNCHANGED prev
          ELSE IxThrow("DbWriteFailed") /\ UNCHANGED store
  /\ UNCHANGED txSnap
  /\ IxFrame

\* lines 241-262: one iteration of the insertChunks loop; after the last
\* chunk the ids are appended to allChunksWithMeta
IxInsertChunk ==
  /\ ix.pc = "chunks"
  /\ LET p == Head(ix.todo)
         text == ix.nodes[Len(ix.ids) + 1]
         r == insertChunk(store, ix.fileId, text, p)
         ids == Append(ix.ids, r.ret)
         last == Len(ids) = Len(ix.nodes)
         full == store.seqChunks >= MaxChunkId
     IN \E ok \in BOOLEAN :
          IF ok /\ ~full /\ ChunkInsertAllowed(store, ix.fileId)
          THEN /\ store' = r.s
               /\ conn' = [conn EXCEPT !["index"].lastRowid = r.lr]
               /\ ix' = [ix EXCEPT !.ids = ids,
                                   !.acm = IF last THEN @ \o ids ELSE @,
                                   !.todo = IF last THEN Tail(@) ELSE @,
                                   !.pc = IF last THEN AfterFile(Tail(ix.todo)) ELSE "chunks"]
               /\ UNCHANGED prev
          ELSE IxThrow("DbWriteFailed") /\ UNCHANGED store
  /\ UNCHANGED txSnap
  /\ IxFrame

\* lines 297-322: the summary is returned and the store closed
IxReturn ==
  /\ ix' = [IxIdle EXCEPT !.pc = "done", !.cfg = ix.cfg, !.skip = ix.skip,
                          !.discovered = ix.discovered, !.added = ix.added,
                          !.modified = ix.modified, !.deleted = ix.deleted,
                          !.unchanged = ix.unchanged, !.acm = ix.acm,
                          !.wrote = ix.wrote, !.skipped = ix.skipped,
                          !.produced = ix.produced, !.seq0 = ix.seq0,
                          !.afterDone = ix.afterDone, !.afterClean = ix.afterClean]
  /\ conn' = [conn EXCEPT !["index"] = ClosedConn]
  /\ prev' = [done |-> TRUE, clean |-> ~ix.skipped]

\* lines 275-284: createEmbedder and embedder.embed, or nothing to embed
IxEmbed ==
  /\ ix.pc = "embed"
  /\ IF ix.skip \/ ix.acm = <<>>
     THEN IxReturn
     ELSE \E ok \in BOOLEAN :
            IF ok
            THEN /\ ix' = [ix EXCEPT !.pc = "tx"]
                 /\ UNCHANGED <<conn, prev>>
            ELSE IxThrow("EmbedderFailed")
  /\ UNCHANGED <<store, txSnap>>
  /\ IxFrame

\* line 287: db.transaction begins
IxTxBegin ==
  /\ ix.pc = "tx"
  /\ txSnap' = <<store>>
  /\ ix' = [ix EXCEPT !.pc = "vectors", !.vi = 1]
  /\ UNCHANGED <<store, conn, prev>>
  /\ IxFrame

\* lines 288-291: one insertVector of the batch; a failure rolls back
IxInsertVector ==
  /\ ix.pc = "vectors"
  /\ ix.vi <= Len(ix.acm)
  /\ LET chunkDbId == ix.acm[ix.vi]
         r == insertVector(store, chunkDbId)
     IN \E ok \in BOOLEAN :
          IF ok /\ VectorInsertAllowed(store, chunkDbId, ix.cfg.dimensions)
          THEN /\ store' = r.s
               /\ conn' = [conn EXCEPT !["index"].lastRowid = r.lr]
               /\ ix' = [ix EXCEPT !.vi = @ + 1, !.wrote = TRUE]
               /\ UNCHANGED <<txSnap, prev>>
          ELSE /\ store' = transactionRollback(store, txSnap[1])
               /\ txSnap' = NoTx
               /\ IxThrow("DbWriteFailed")
  /\ IxFrame

\* line 292: COMMIT, then the run returns
IxTxCommit ==
  /\ ix.pc = "vectors"
  /\ ix.vi > Len(ix.acm)
  /\ txSnap' = NoTx
  /\ IxReturn
  /\ UNCHANGED store
  /\ IxFrame

\* the file tree is edited between runs: a file is created, rewritten or
\* removed
FsEdit ==
  \E p \in Paths, c \in Contents \cup {NoFile} :
    /\ ix.pc \in IxRest
    /\ fs[p] # c
    /\ fs' = [fs EXCEPT ![p] = c]
    /\ prev' = PrevNone
    /\ ix' = IxIdle
    /\ UNCHANGED <<config, store, txSnap, conn, api, wb, wlog, fn>>

\* a file is removed from the tree between runs
FsRemove ==
  \E p \in Paths :
    /\ ix.pc \in IxRest
    /\ fs[p] # NoFile
    /\ fs' = [fs EXCEPT ![p] = NoFile]
    /\ prev' = PrevNone
    /\ ix' = IxIdle
    /\ UNCHANGED <<config, store, txSnap, conn, api, wb, wlog, fn>>

\* config set embedder.*: between runs
ConfigSet ==
  \E c \in Configs :
    /\ ix.pc \in IxRest
    /\ c # config
    /\ config' = c
    /\ ix' = IxIdle
    /\ UNCHANGED <<fs, store, txSnap, conn, prev, api, wb, wlog, fn>>

Init ==
  /\ fs \in [Paths -> {"s", NoFile}]
  /\ config = CfgBase
  /\ store = NoDatabase
  /\ txSnap = NoTx
  /\ conn = [c \in ConnIds |-> ClosedConn]
  /\ ix = IxIdle
  /\ prev = PrevNone
  /\ api = ApiNone
  /\ wb = <<>>
  /\ wlog = WlogNone
  /\ fn = FnNone

Next ==
  \/ IxOpen
  \/ IxGate
  \/ IxDiscover
  \/ IxDeleteRemoved
  \/ IxBeginFile
  \/ IxParse
  \/ IxUpsert
  \/ IxInsertChunk
  \/ IxEmbed
  \/ IxTxBegin
  \/ IxInsertVector
  \/ IxTxCommit
  \/ FsEdit

Spec == Init /\ [][Next]_vars

\* ------------------------------------------------------------------------
\* GateSpec: runInit while the configured embedder is changed and files are
\* removed between runs
\* ------------------------------------------------------------------------
GateNext ==
  \/ IxOpen
  \/ IxGate
  \/ IxDiscover
  \/ IxDeleteRemoved
  \/ IxBeginFile
  \/ IxParse
  \/ IxUpsert
  \/ IxInsertChunk
  \/ IxEmbed
  \/ IxTxBegin
  \/ IxInsertVector
  \/ IxTxCommit
  \/ FsRemove
  \/ ConfigSet

GateSpec == Init /\ [][GateNext]_vars

\* ------------------------------------------------------------------------
\* WatchSpec: one runWatch session.  Every batch the watcher delivers starts
\* a reindexChanges call that is not awaited (void (async () => ..)()), so
\* calls overlap: each runs synchronously up to its next await, and
\* wlog.running names the call that holds the thread (0: all are suspended).
\* ------------------------------------------------------------------------
WatchContents == {"s"}

BatchDone == [pc |-> "done", changes |-> <<>>, nodes |-> <<>>, acm |-> <<>>]

WatchFrame == UNCHANGED <<config, txSnap, ix, prev, api, fn>>

\* history: the call b executes a store write
Wrote(b) ==
  [wlog EXCEPT !.preempted = IF wlog.last \notin {0, b} THEN @ \cup {wlog.last} ELSE @,
               !.last = b]

CanRun(b) == wb[b].pc # "done" /\ wlog.running \in {0, b}

\* after db.close() every statement of the handle throws, which rejects the
\* reindexChanges call that runs it (caught and logged by onChange)
DbClosed == ~conn["watch"].open

\* the session state after ctx init on a project without source files and
\* runWatch's createDatabase (line 233); phase "opened": before
\* watcher.start(), "watching": runWatch has returned its handle
WatchStart(phase) ==
  LET created == initializeSchema(NoDatabase, CfgBase.dimensions)
      gated == setIndexEmbedder(created.s, CfgBase)
  IN /\ fs = [p \in Paths |-> NoFile]
     /\ config = CfgBase
     /\ store = gated.s
     /\ txSnap = NoTx
     /\ conn = [c \in ConnIds |-> IF c = "watch"
                                  THEN [open |-> TRUE, lastRowid |-> 0,
                                        dim |-> CfgBase.dimensions]
                                  ELSE ClosedConn]
     /\ ix = IxIdle
     /\ prev = PrevNone
     /\ api = ApiNone
     /\ wb = <<>>
     /\ \E skip \in BOOLEAN :
          wlog = [last |-> 0, preempted |-> {}, delivered |-> 0, running |-> 0,
                  skipEmbedding |-> skip, phase |-> phase]
     /\ fn = FnNone

WatchInit == WatchStart("watching")

\* files are created, rewritten or removed and, after the debounce, the
\* watcher calls onChange with one change per touched path (watcher.ts
\* flush); onChange starts the call, which holds the thread up to its
\* first await
WDeliver ==
  \E order \in {<<"a.ts">>, <<"b.ts">>, <<"a.ts", "b.ts">>, <<"b.ts", "a.ts">>} :
    \E new \in [Range(order) -> WatchContents \cup {NoFile}] :
      LET change(p) == [type |-> IF new[p] = NoFile THEN "unlink"
                                ELSE IF fs[p] = NoFile THEN "add" ELSE "change",
                        path |-> p]
          batch == [i \in 1..Len(order) |-> change(order[i])]
      IN /\ wlog.running = 0
         /\ wlog.phase = "watching"
         /\ wlog.delivered < MaxBatches
         /\ \A p \in Range(order) : new[p] # fs[p] \/ fs[p] # NoFile
         /\ fs' = [p \in Paths |-> IF p \in Range(order) THEN new[p] ELSE fs[p]]
         /\ wb' = Append(wb, [pc |-> "loop", changes |-> batch, nodes |-> <<>>, acm |-> <<>>])
         /\ wlog' = [wlog EXCEPT !.delivered = @ + 1, !.running = Len(wb) + 1]
         /\ UNCHANGED <<store, conn>>
         /\ WatchFrame

\* watch.ts lines 87-111 and 164-166: the head of the loop up to the await
\* of parseFile, or the end of the loop
WLoop ==
  \E b \in DOMAIN wb :
    /\ CanRun(b)
    /\ wb[b].pc = "loop"
    /\ IF wb[b].changes = <<>>
       THEN /\ IF wlog.skipEmbedding \/ wb[b].acm = <<>>
               THEN wb' = [wb EXCEPT ![b] = BatchDone]
               ELSE wb' = [wb EXCEPT ![b].pc = "embed"]
            /\ wlog' = [wlog EXCEPT !.running = 0]
            /\ UNCHANGED store
       ELSE LET change == Head(wb[b].changes)
                existingFile == getFile(store, change.path)
            IN IF DbClosed /\ (change.type = "unlink" \/ fs[change.path] # NoFile)
               THEN /\ wb' = [wb EXCEPT ![b] = BatchDone]
                    /\ wlog' = [wlog EXCEPT !.running = 0]
                    /\ UNCHANGED store
               ELSE IF change.type = "unlink"
               THEN /\ store' = IF existingFile # {}
                                THEN deleteFile(store, change.path) ELSE store
                    /\ wb' = [wb EXCEPT ![b].changes = Tail(@)]
                    /\ wlog' = [(IF existingFile # {} THEN Wrote(b) ELSE wlog)
                                  EXCEPT !.running = b]
               ELSE IF fs[change.path] = NoFile
               THEN /\ wb' = [wb EXCEPT ![b].changes = Tail(@)]
                    /\ wlog' = [wlog EXCEPT !.running = b]
                    /\ UNCHANGED store
               ELSE /\ store' = IF existingFile # {}
                                THEN deleteChunksByFile(store, (CHOOSE f \in existingFile : TRUE).id)
                                ELSE store
                    /\ wb' = [wb EXCEPT ![b].pc = "parse"]
                    /\ wlog' = [(IF existingFile # {} THEN Wrote(b) ELSE wlog)
                                  EXCEPT !.running = 0]
    /\ UNCHANGED <<fs, conn>>
    /\ WatchFrame

\* watch.ts lines 113-126: parseFile resolves or throws, chunkFile, then the
\* await inside hashFile
WParse ==
  \E b \in DOMAIN wb :
    /\ CanRun(b)
    /\ wb[b].pc = "parse"
    /\ LET p == Head(wb[b].changes).path
       IN \E parsed \in BOOLEAN :
            IF parsed
            THEN /\ wb' = [wb EXCEPT ![b].pc = "hash",
                                     ![b].nodes = IF fs[p] = NoFile THEN <<>> ELSE chunkFile(fs[p])]
                 /\ wlog' = [wlog EXCEPT !.running = 0]
            ELSE /\ wb' = [wb EXCEPT ![b].pc = "loop", ![b].changes = Tail(@)]
                 /\ wlog' = [wlog EXCEPT !.running = b]
    /\ UNCHANGED <<fs, store, conn>>
    /\ WatchFrame

\* watch.ts lines 126-161: readFileSync and statSync (ENOENT rejects the
\* call), upsertFile, insertChunks (a foreign-key failure rejects the call)
WHash ==
  \E b \in DOMAIN wb :
    /\ CanRun(b)
    /\ wb[b].pc = "hash"
    /\ LET p == Head(wb[b].changes).path
           up == upsertFile(store, conn["watch"].lastRowid, p, hashFileContent(fs[p]))
           ins == insertChunks(up.s, up.lr, up.ret, wb[b].nodes, p)
       IN IF fs[p] = NoFile \/ DbClosed
          THEN /\ wb' = [wb EXCEPT ![b] = BatchDone]
               /\ wlog' = [wlog EXCEPT !.running = 0]
               /\ UNCHANGED <<store, conn>>
          ELSE IF wb[b].nodes # <<>> /\ ~ChunkInsertAllowed(up.s, up.ret)
          THEN /\ store' = up.s
               /\ conn' = [conn EXCEPT !["watch"].lastRowid = up.lr]
               /\ wb' = [wb EXCEPT ![b] = BatchDone]
               /\ wlog' = [Wrote(b) EXCEPT !.running = 0]
          ELSE /\ store' = ins.s
               /\ conn' = [conn EXCEPT !["watch"].lastRowid = ins.lr]
               /\ wb' = [wb EXCEPT ![b].pc = "loop", ![b].changes = Tail(@),
                                   ![b].nodes = <<>>, ![b].acm = @ \o ins.ret]
               /\ wlog' = [Wrote(b) EXCEPT !.running = b]
    /\ UNCHANGED fs
    /\ WatchFrame

\* watch.ts lines 165-180: loadEmbedder and embed resolve or reject, then
\* the vectors are inserted in one db.transaction (rolled back as a whole
\* when an insert is refused)
WEmbed ==
  \E b \in DOMAIN wb :
    /\ CanRun(b)
    /\ wb[b].pc = "embed"
    /\ \E embedded \in BOOLEAN :
         LET ids == Range(wb[b].acm)
             accepted == \A id \in ids : VectorInsertAllowed(store, id, config.dimensions)
         IN IF ~embedded \/ DbClosed
            THEN UNCHANGED <<store, conn, wlog>>
            ELSE IF accepted
            THEN /\ store' = [store EXCEPT !.vectors = @ \cup ids]
                 /\ conn' = [conn EXCEPT !["watch"].lastRowid = wb[b].acm[Len(wb[b].acm)]]
                 /\ wlog' = Wrote(b)
            ELSE /\ wlog' = Wrote(b)
                 /\ UNCHANGED <<store, conn>>
    /\ wb' = [wb EXCEPT ![b] = BatchDone]
    /\ UNCHANGED fs
    /\ WatchFrame

WatchNext ==
  \/ WDeliver
  \/ WLoop
  \/ WParse
  \/ WHash
  \/ WEmbed

WatchSpec == WatchInit /\ [][WatchNext]_vars

\* ------------------------------------------------------------------------
\* SessionSpec: a runWatch session from createDatabase to stop()
\* ------------------------------------------------------------------------
SessionInit == WatchStart("opened")

\* watch.ts lines 238-275: createWatcher and await watcher.start(); when the
\* promise rejects runWatch rejects and no handle is returned
WStart ==
  /\ wlog.phase = "opened"
  /\ \E ready \in BOOLEAN :
       wlog' = [wlog EXCEPT !.phase = IF ready THEN "watching" ELSE "startFailed"]
  /\ UNCHANGED <<fs, store, conn, wb>>
  /\ WatchFrame

\* watch.ts lines 278-285, watcher.ts 118-129: stop() clears the debounce
\* timer and the pending changes and awaits watcher.close(); db.close()
\* follows only when that promise resolves
WStop ==
  /\ wlog.phase = "watching"
  /\ wlog.running = 0
  /\ \E closed \in BOOLEAN :
       IF closed
       THEN /\ conn' = [conn EXCEPT !["watch"] = ClosedConn]
            /\ wlog' = [wlog EXCEPT !.phase = "stopped"]
       ELSE /\ wlog' = [wlog EXCEPT !.phase = "stopFailed"]
            /\ UNCHANGED conn
  /\ UNCHANGED <<fs, store, wb>>
  /\ WatchFrame

SessionNext ==
  \/ WStart
  \/ WStop
  \/ WDeliver
  \/ WLoop
  \/ WParse
  \/ WHash
  \/ WEmbed

SessionSpec == SessionInit /\ [][SessionNext]_vars

\* ------------------------------------------------------------------------
\* Calls of pure functions: the rest of the state stays as constructed
\* ------------------------------------------------------------------------
FnWorld ==
  /\ fs = [p \in Paths |-> NoFile]
  /\ config = CfgBase
  /\ store = NoDatabase
  /\ txSnap = NoTx
  /\ conn = [c \in ConnIds |-> ClosedConn]
  /\ ix = IxIdle
  /\ prev = PrevNone
  /\ api = ApiNone
  /\ wb = <<>>
  /\ wlog = WlogNone

FnFrame == UNCHANGED <<fs, config, store, txSnap, conn, ix, prev, api, wb, wlog>>

\* ------------------------------------------------------------------------
\* TraceSpec: dependencyTrace over a dependencies table.  The table is the
\* sequence of its rows in rowid order; scores are in tenths.
\* ------------------------------------------------------------------------
MaxTraceNode == 3
MaxTraceEdges == 2
MaxTraceDepth == 7

DEPTH_SCORE_BASE == 10
DEPTH_SCORE_DECAY == 2

\* getDependencies / getReverseDependencies: the matching rows in rowid order
getNeighbors(deps, chunkId, direction) ==
  IF direction = "imports"
  THEN LET rows == SelectSeq(deps, LAMBDA e : e.source = chunkId)
       IN [i \in 1..Len(rows) |-> rows[i].target]
  ELSE LET rows == SelectSeq(deps, LAMBDA e : e.target = chunkId)
       IN [i \in 1..Len(rows) |-> rows[i].source]

\* a visited set that never reports a chunk as visited
isVisited_Never(visited, id) == FALSE

isVisited(visited, id) == id \in visited

\* the loop over the neighbours of one frontier chunk
RECURSIVE ScanNeighbors(_, _, _)
ScanNeighbors(neighbors, visited, nextFrontier) ==
  IF neighbors = <<>>
  THEN [visited |-> visited, nextFrontier |-> nextFrontier]
  ELSE IF isVisited(visited, Head(neighbors))
  THEN ScanNeighbors(Tail(neighbors), visited, nextFrontier)
  ELSE ScanNeighbors(Tail(neighbors), visited \cup {Head(neighbors)},
                     Append(nextFrontier, Head(neighbors)))

\* the loop over the frontier
RECURSIVE ScanFrontier(_, _, _, _, _)
ScanFrontier(deps, direction, frontier, visited, nextFrontier) ==
  IF frontier = <<>>
  THEN [visited |-> visited, nextFrontier |-> nextFrontier]
  ELSE LET r == ScanNeighbors(getNeighbors(deps, Head(frontier), direction),
                              visited, nextFrontier)
       IN ScanFrontier(deps, direction, Tail(frontier), r.visited, r.nextFrontier)

\* getChunksByIds: the rows whose id is in the list, in the order in which
\* SELECT .. WHERE c.id IN (..) yields them: the statement has no ORDER BY;
\* sqlite walks the rowids upwards ("asc") or downwards ("desc")
getChunksByIds(ids, rowOrder) ==
  LET n == MaxTraceNode + MaxTraceDepth
      scan == [i \in 1..n |-> IF rowOrder = "asc" THEN i ELSE n + 1 - i]
  IN SelectSeq(scan, LAMBDA id : id \in Range(ids))

\* the loop over the depth levels, from level d on
RECURSIVE TraceLevels(_, _, _, _, _, _, _, _)
TraceLevels(deps, direction, depth, rowOrder, d, frontier, visited, results) ==
  IF d >= depth
  THEN results
  ELSE LET r == ScanFrontier(deps, direction, frontier, visited, <<>>)
       IN IF r.nextFrontier = <<>>
          THEN results
          ELSE LET chunks == getChunksByIds(r.nextFrontier, rowOrder)
                   score == DEPTH_SCORE_BASE - d * DEPTH_SCORE_DECAY
                   level == [i \in 1..Len(chunks) |->
                               [chunkId |-> chunks[i], score |-> score]]
               IN TraceLevels(deps, direction, depth, rowOrder, d + 1,
                              r.nextFrontier, r.visited, results \o level)

dependencyTrace(deps, chunkId, direction, depth, rowOrder) ==
  TraceLevels(deps, direction, depth, rowOrder, 0, <<chunkId>>, {chunkId}, <<>>)

\* the tables traced: every table of at most MaxTraceEdges rows over the
\* chunks 1..MaxTraceNode, the chains 1 -> 2 -> .. -> k+1, and the chains
\* closed into a ring
TraceInit ==
  /\ FnWorld
  /\ \E deps \in LET Edges == [source : 1..MaxTraceNode, target : 1..MaxTraceNode]
                     Chain(k) == [i \in 1..k |-> [source |-> i, target |-> i + 1]]
                     Ring(k) == Append(Chain(k), [source |-> k + 1, target |-> 1])
                 IN UNION {[1..n -> Edges] : n \in 0..MaxTraceEdges}
                      \cup {Chain(k) : k \in 1..MaxTraceDepth}
                      \cup {Ring(k) : k \in 1..MaxTraceDepth},
        depth \in 0..MaxTraceDepth,
        direction \in {"imports", "importedBy"}, rowOrder \in {"asc", "desc"} :
       fn = [op |-> "dependencyTrace", pc |-> "call", deps |-> deps, chunkId |-> 1,
             direction |-> direction, depth |-> depth, rowOrder |-> rowOrder,
             results |-> <<>>]

TraceCall ==
  /\ fn.op = "dependencyTrace"
  /\ fn.pc = "call"
  /\ fn' = [fn EXCEPT !.pc = "returned",
                      !.results = dependencyTrace(fn.deps, fn.chunkId, fn.direction,
                                                  fn.depth, fn.rowOrder)]
  /\ FnFrame

TraceSpec == TraceInit /\ [][TraceCall]_vars

\* ------------------------------------------------------------------------
\* Exact arithmetic for scores: a score is a fraction n/d in lowest terms
\* with d > 0 (the quantities compared below are ratios, which the
\* floating-point divisions and comparisons of the code preserve)
\* ------------------------------------------------------------------------
RECURSIVE Gcd(_, _)
Gcd(a, b) == IF b = 0 THEN a ELSE Gcd(b, a % b)

Rat(n, d) == LET g == Gcd(n, d) IN [n |-> n \div g, d |-> d \div g]

RatZero == [n |-> 0, d |-> 1]

RatOne == [n |-> 1, d |-> 1]

RatMul(x, y) ==
  IF x.n = 0 \/ y.n = 0
  THEN RatZero
  ELSE LET g1 == Gcd(x.n, y.d)
           g2 == Gcd(y.n, x.d)
       IN [n |-> (x.n \div g1) * (y.n \div g2), d |-> (x.d \div g2) * (y.d \div g1)]

\* a/b < c/d by comparing the continued-fraction expansions
RECURSIVE FracLess(_, _, _, _)
FracLess(a, b, c, d) ==
  IF a \div b # c \div d THEN a \div b < c \div d
  ELSE IF c % d = 0 THEN FALSE
  ELSE IF a % b = 0 THEN TRUE
  ELSE FracLess(d, c % d, b, a % b)

RatLess(x, y) == FracLess(x.n, x.d, y.n, y.d)

RatMax(x, y) == IF RatLess(x, y) THEN y ELSE x

\* Math.max(...scores, 0)
RECURSIVE MaxScore(_)
MaxScore(results) ==
  IF results = <<>> THEN RatZero ELSE RatMax(Head(results).score, MaxScore(Tail(results)))

\* Array.prototype.sort with (a, b) => b.score - a.score: descending, stable
RECURSIVE SortDesc(_)
SortDesc(results) ==
  IF results = <<>>
  THEN <<>>
  ELSE LET sorted == SortDesc(SubSeq(results, 1, Len(results) - 1))
           e == results[Len(results)]
           k == Cardinality({i \in 1..Len(sorted) : ~RatLess(sorted[i].score, e.score)})
       IN SubSeq(sorted, 1, k) \o <<e>> \o SubSeq(sorted, k + 1, Len(sorted))

slice(results, limit) ==
  SubSeq(results, 1, IF limit < Len(results) THEN limit ELSE Len(results))

\* ------------------------------------------------------------------------
\* FuseSpec: fusionMerge and fusionMergeWithPathBoost
\* ------------------------------------------------------------------------
MaxFuseRank == 2
MaxFuseLimit == 2

K == 60
SMALL_SNIPPET_MAX_LINES == 3

\* the search results the strategies can return; a file path is its
\* directory segments and the dot-separated parts of its file name
FuseCatalog ==
  LET FusePath(dirs, parts) == [dirs |-> dirs, parts |-> parts]
      FuseResult(chunkId, filePath, type, lineStart, lineEnd, text) ==
        [chunkId |-> chunkId, filePath |-> filePath, type |-> type,
         lineStart |-> lineStart, lineEnd |-> lineEnd, exported |-> FALSE,
         text |-> text, score |-> RatZero]
  IN { FuseResult(1, FusePath(<<"src", "auth">>, <<"login", "ts">>), "function", 1, 10,
                  "function f"),
       FuseResult(2, FusePath(<<"src", "db">>, <<"store", "ts">>), "function", 1, 20,
                  "function g"),
       FuseResult(3, FusePath(<<"src", "auth">>, <<"login", "ts">>), "import", 1, 2,
                  "import x"),
       FuseResult(4, FusePath(<<"tests">>, <<"auth", "test", "ts">>), "function", 1, 30,
                  "  Export function t") }

\* String.prototype.toLowerCase on the strings that occur
toLowerCase(str) ==
  CASE str = "Auth" -> "auth"
    [] str = "  Export function t" -> "  export function t"
    [] str = "Export function t" -> "export function t"
    [] OTHER -> str

fusionMerge(strategyResults, limit) ==
  LET \* the contributions in iteration order
      contribs == [s \in 1..Len(strategyResults) |->
                     [rank \in 1..Len(strategyResults[s].results) |->
                        [result |-> strategyResults[s].results[rank],
                         rrfScore |-> RatMul(strategyResults[s].weight, Rat(1, K + rank))]]]
      flat == IF Len(contribs) = 0 THEN <<>>
              ELSE IF Len(contribs) = 1 THEN contribs[1] ELSE contribs[1] \o contribs[2]
      RatAdd(x, y) ==
        LET g == Gcd(x.d, y.d)
        IN Rat(x.n * (y.d \div g) + y.n * (x.d \div g), (x.d \div g) * y.d)
      \* scoreMap and resultMap as entries in insertion order
      add(entries, c) ==
        IF \E i \in 1..Len(entries) : entries[i].chunkId = c.result.chunkId
        THEN [i \in 1..Len(entries) |->
                IF entries[i].chunkId = c.result.chunkId
                THEN [entries[i] EXCEPT !.score = RatAdd(@, c.rrfScore)]
                ELSE entries[i]]
        ELSE Append(entries, [c.result EXCEPT !.score = c.rrfScore])
      acc[k \in 0..Len(flat)] == IF k = 0 THEN <<>> ELSE add(acc[k - 1], flat[k])
      entries == SortDesc(acc[Len(flat)])
  IN IF entries = <<>>
     THEN <<>>
     ELSE LET maxScore == entries[1].score
              kept == slice(entries, limit)
          IN [i \in 1..Len(kept) |->
                [kept[i] EXCEPT !.score =
                   IF RatLess(RatZero, maxScore)
                   THEN RatMul(kept[i].score, [n |-> maxScore.d, d |-> maxScore.n])
                   ELSE RatZero]]

isTestFilePath(filePath) ==
  \/ \E seg \in Range(filePath.dirs) : seg \in {"tests", "__tests__"}
  \/ /\ Len(filePath.parts) >= 3
     /\ filePath.parts[Len(filePath.parts) - 1] \in {"test", "spec"}
     /\ filePath.parts[Len(filePath.parts)] \in {"js", "jsx", "ts", "tsx", "mjs", "mjsx", "mts", "mtsx",
                                                 "cjs", "cjsx", "cts", "ctsx"}

\* a chunk of up to ten lines counts as a small snippet
isSmallSnippet_Wide(result) ==
  LET lineCount == IF result.lineEnd - result.lineStart + 1 < 1 THEN 1
                   ELSE result.lineEnd - result.lineStart + 1
  IN lineCount <= 10

isSmallSnippet(result) ==
  LET lineCount == IF result.lineEnd - result.lineStart + 1 < 1 THEN 1
                   ELSE result.lineEnd - result.lineStart + 1
  IN lineCount <= SMALL_SNIPPET_MAX_LINES

isPublicApiSymbol(result) ==
  LET trimStart(str) == IF str = "  Export function t" THEN "Export function t" ELSE str
      textStart == toLowerCase(trimStart(result.text))
  IN result.exported = TRUE \/ textStart = "export function t"

\* a renormalize that leaves the scores as they are
renormalize_None(results) == results

renormalize(results) ==
  IF results = <<>> \/ MaxScore(results) = RatZero
  THEN results
  ELSE LET maxScore == MaxScore(results)
       IN [i \in 1..Len(results) |->
             [results[i] EXCEPT !.score = RatMul(@, [n |-> maxScore.d, d |-> maxScore.n])]]

fusionMergeWithPathBoost(strategyResults, limit, pathBoostTerms) ==
  LET PATH_BOOST_DIR_EXACT == Rat(3, 2)
      PATH_BOOST_FILENAME == Rat(7, 5)
      PATH_BOOST_PARTIAL == Rat(6, 5)
      IMPORT_PENALTY == Rat(1, 2)
      TEST_FILE_PENALTY == Rat(13, 20)
      SMALL_SNIPPET_PENALTY == Rat(3, 4)
      PUBLIC_API_BOOST == Rat(28, 25)
      \* pathLower.includes(term), for the terms that occur
      includes(filePath, term) ==
        \/ term \in Range(filePath.dirs) \cup Range(filePath.parts)
        \/ term = "log" /\ "login" \in Range(filePath.parts)
      getPathBoostFactor(filePath, terms) ==
        LET fileNameNoExt == SubSeq(filePath.parts, 1, Len(filePath.parts) - 1)
            step(maxBoost, term) ==
              LET termLower == toLowerCase(term)
                  m1 == IF termLower \in Range(filePath.dirs)
                        THEN RatMax(maxBoost, PATH_BOOST_DIR_EXACT) ELSE maxBoost
                  m2 == IF fileNameNoExt = <<termLower>>
                        THEN RatMax(m1, PATH_BOOST_FILENAME) ELSE m1
              IN IF RatLess(m2, PATH_BOOST_PARTIAL) /\ includes(filePath, termLower)
                 THEN RatMax(m2, PATH_BOOST_PARTIAL) ELSE m2
            boost[k \in 0..Len(terms)] ==
              IF k = 0 THEN RatOne ELSE step(boost[k - 1], terms[k])
        IN boost[Len(terms)]
      applyPathBoost(results, terms) ==
        IF Len(terms) = 0
        THEN results
        ELSE [i \in 1..Len(results) |->
                [results[i] EXCEPT
                   !.score = RatMul(@, getPathBoostFactor(results[i].filePath, terms))]]
      \* the three deprioritizations: penalize the results that are `marked`
      \* when an unmarked result has a positive score
      Deprioritize(results, marked, penalty) ==
        LET others == SelectSeq(results, LAMBDA r : r \notin marked)
        IN IF others = <<>> \/ MaxScore(others) = RatZero
           THEN results
           ELSE [i \in 1..Len(results) |->
                   IF results[i] \in marked
                   THEN [results[i] EXCEPT !.score = RatMul(@, penalty)]
                   ELSE results[i]]
      applyImportDeprioritization(results) ==
        Deprioritize(results, {r \in Range(results) : r.type = "import"}, IMPORT_PENALTY)
      applyTestFileDeprioritization(results) ==
        Deprioritize(results, {r \in Range(results) : isTestFilePath(r.filePath)},
                     TEST_FILE_PENALTY)
      applySmallSnippetDeprioritization(results) ==
        Deprioritize(results, {r \in Range(results) : isSmallSnippet(r)},
                     SMALL_SNIPPET_PENALTY)
      applyPublicApiBoost(results) ==
        [i \in 1..Len(results) |->
           IF isPublicApiSymbol(results[i])
           THEN [results[i] EXCEPT !.score = RatMul(@, PUBLIC_API_BOOST)]
           ELSE results[i]]
      getFileDiversityFactor(fileOccurrence) ==
        IF fileOccurrence <= 1 THEN RatOne
        ELSE IF fileOccurrence = 2 THEN Rat(9, 10)
        ELSE IF fileOccurrence = 3 THEN Rat(4, 5)
        ELSE Rat(7, 10)
      applyFileDiversityDiminishingReturns(results) ==
        IF Len(results) <= 1
        THEN results
        ELSE LET ranked == SortDesc(results)
             IN [i \in 1..Len(ranked) |->
                   LET count == Cardinality({j \in 1..i :
                                               ranked[j].filePath = ranked[i].filePath})
                   IN [ranked[i] EXCEPT !.score = RatMul(@, getFileDiversityFactor(count))]]
      fused == fusionMerge(strategyResults, limit * 3)
  IN IF fused = <<>>
     THEN <<>>
     ELSE LET boosted == applyPathBoost(fused, pathBoostTerms)
              importAdjusted == applyImportDeprioritization(boosted)
              testAdjusted == applyTestFileDeprioritization(importAdjusted)
              snippetAdjusted == applySmallSnippetDeprioritization(testAdjusted)
              boostedApi == applyPublicApiBoost(snippetAdjusted)
              adjusted == applyFileDiversityDiminishingReturns(boostedApi)
          IN renormalize(slice(SortDesc(adjusted), limit))

\* two strategies, vector and fts, with weights in tenths; the boost terms
\* of three queries
FuseInit ==
  /\ FnWorld
  /\ \E vector \in UNION {[1..n -> FuseCatalog] : n \in 0..MaxFuseRank},
        fts \in UNION {[1..n -> FuseCatalog] : n \in 0..MaxFuseRank}, w \in {<<10, 8>>, <<10, 0>>, <<0, 0>>},
        limit \in 1..MaxFuseLimit, terms \in {<<>>, <<"Auth">>, <<"log", "login">>} :
       \* a strategy returns no chunk twice
       /\ \A i, j \in 1..Len(vector) : vector[i] = vector[j] => i = j
       /\ \A i, j \in 1..Len(fts) : fts[i] = fts[j] => i = j
       /\ fn = [op |-> "fusion", pc |-> "call",
                strategyResults |->
                  << [strategy |-> "vector", weight |-> Rat(w[1], 10), results |-> vector],
                     [strategy |-> "fts", weight |-> Rat(w[2], 10), results |-> fts] >>,
                limit |-> limit, pathBoostTerms |-> terms,
                merged |-> <<>>, boosted |-> <<>>]

\* both functions applied to the same arguments
FuseCall ==
  /\ fn.op = "fusion"
  /\ fn.pc = "call"
  /\ fn' = [fn EXCEPT !.pc = "returned",
                      !.merged = fusionMerge(fn.strategyResults, fn.limit),
                      !.boosted = fusionMergeWithPathBoost(fn.strategyResults, fn.limit,
                                                           fn.pathBoostTerms)]
  /\ FnFrame

FuseSpec == FuseInit /\ [][FuseCall]_vars

\* ------------------------------------------------------------------------
\* WeightSpec: the strategy weights a query carries into fusion.  Weights
\* and multipliers are in tenths, their products in hundredths.
\* ------------------------------------------------------------------------
MaxQueryWords == 4

STRATEGY_WEIGHTS ==
  [vector |-> 10, fts |-> 8, ast |-> 9, path |-> 7, dependency |-> 6]

classifyQuery(query) ==
  LET defaultMultipliers ==
        [vector |-> 10, fts |-> 10, ast |-> 10, path |-> 10, dependency |-> 10]
      \* a "/" anywhere, or a known extension at the end
      isPathQuery ==
        \/ \E i \in 1..Len(query) : query[i] = "src/auth"
        \/ query[Len(query)] = "auth.ts"
      \* the four identifier patterns: one word of letters and digits
      isSymbolQuery == Len(query) = 1 /\ query[1] \in {"getUser", "how", "the"}
      isNaturalLanguageQuery ==
        LET hasQuestionWord == \E i \in 1..Len(query) : query[i] \in {"how"}
            hasStopWord == \E i \in 1..Len(query) : query[i] \in {"the"}
        IN hasQuestionWord \/ (Len(query) >= 4 /\ hasStopWord)
  IN IF isPathQuery
     THEN [kind |-> "path",
           multipliers |-> [defaultMultipliers EXCEPT !.path = 20, !.ast = 5]]
     ELSE IF isSymbolQuery
     THEN [kind |-> "symbol",
           multipliers |-> [defaultMultipliers EXCEPT !.ast = 15, !.vector = 5]]
     ELSE IF isNaturalLanguageQuery
     THEN [kind |-> "natural_language",
           multipliers |-> [defaultMultipliers EXCEPT !.vector = 15, !.path = 12, !.ast = 7]]
     ELSE [kind |-> "keyword", multipliers |-> defaultMultipliers]

getEffectiveStrategyWeights(query) ==
  LET multipliers == classifyQuery(query).multipliers
  IN [vector |-> STRATEGY_WEIGHTS.vector * multipliers.vector,
      fts |-> STRATEGY_WEIGHTS.fts * multipliers.fts,
      ast |-> STRATEGY_WEIGHTS.ast * multipliers.ast,
      path |-> STRATEGY_WEIGHTS.path * multipliers.path,
      dependency |-> STRATEGY_WEIGHTS.dependency * multipliers.dependency]

\* a query is its whitespace-separated words; search.weights of the project
\* configuration holds the defaults, or the defaults with the vector or the
\* fts weight set by the user
WeightInit ==
  /\ FnWorld
  /\ \E query \in UNION {[1..n -> {"src/auth", "auth.ts", "getUser", "get-user", "how", "the"}] :
                          n \in 1..MaxQueryWords},
        weights \in LET defaults == [vector |-> 10, fts |-> 8, ast |-> 9, path |-> 7,
                                     dependency |-> 6]
                    IN {defaults, [defaults EXCEPT !.vector = 20],
                        [defaults EXCEPT !.fts = 0]} :
       fn = [op |-> "runStrategies", pc |-> "call", query |-> query,
             searchWeights |-> weights, effectiveWeights |-> <<>>]

\* runStrategies up to the weights it hands to fusion
WeightCall ==
  /\ fn.op = "runStrategies"
  /\ fn.pc = "call"
  /\ fn' = [fn EXCEPT !.pc = "returned",
                      !.effectiveWeights = getEffectiveStrategyWeights(fn.query)]
  /\ FnFrame

WeightSpec == WeightInit /\ [][WeightCall]_vars

\* ------------------------------------------------------------------------
\* ChunkSpec: chunkFile on the AST nodes of one file.  The text of a node is
\* the sequence of the word counts of its lines.
\* ------------------------------------------------------------------------
MaxNodes == 3

DEFAULT_MAX_TOKENS == 500
MERGE_THRESHOLD == 50

RECURSIVE SumWords(_)
SumWords(words) == IF words = <<>> THEN 0 ELSE Head(words) + SumWords(Tail(words))

\* Math.ceil(wordCount * 1.3)
estimateTokens(words) == (13 * SumWords(words) + 9) \div 10

ASTNode(type, name, parent, at, words) ==
  [type |-> type, name |-> name, parent |-> parent,
   lineStart |-> at, lineEnd |-> at + Len(words) - 1, words |-> words]

\* the nodes of a file: its top-level declarations in document order, each
\* after `gap` blank lines; the parser emits one node for a declaration, or
\* a class node followed by its method node
RECURSIVE LayoutNodes(_, _)
LayoutNodes(layout, line) ==
  IF layout = <<>>
  THEN <<>>
  ELSE LET at == line + Head(layout).gap
           shape == Head(layout).shape
           ns == CASE shape = "import" -> <<ASTNode("import", "", "", at, <<3>>)>>
                   [] shape = "function" -> <<ASTNode("function", "f", "", at, <<2, 2>>)>>
                   [] shape = "largeFunction" ->
                        <<ASTNode("function", "g", "", at, <<3, 3, 3>>)>>
                   [] shape = "constant" -> <<ASTNode("constant", "c", "", at, <<2>>)>>
                   [] shape = "largeConstant" -> <<ASTNode("constant", "d", "", at, <<40>>)>>
                   [] shape = "classWithMethod" ->
                        <<ASTNode("class", "C", "", at, <<1, 2, 1>>),
                          ASTNode("method", "m", "C", at + 1, <<2>>)>>
       IN ns \o LayoutNodes(Tail(layout), ns[1].lineEnd + 1)

\* Array.prototype.sort with (a, b) => a.lineStart - b.lineStart: stable
RECURSIVE SortByLine(_)
SortByLine(items) ==
  IF items = <<>>
  THEN <<>>
  ELSE LET sorted == SortByLine(SubSeq(items, 1, Len(items) - 1))
           e == items[Len(items)]
           k == Cardinality({i \in 1..Len(sorted) : sorted[i].lineStart <= e.lineStart})
       IN SubSeq(sorted, 1, k) \o <<e>> \o SubSeq(sorted, k + 1, Len(sorted))

\* splitLargeNode: its loop from line i on, then the remaining lines
RECURSIVE splitLargeNode(_, _, _, _, _, _)
splitLargeNode(node, maxTokens, i, currentStartOffset, currentLines, chunks) ==
  LET emitted == Append(chunks, [lineStart |-> node.lineStart + currentStartOffset,
                                 lineEnd |-> node.lineStart + currentStartOffset
                                             + Len(currentLines) - 1,
                                 words |-> currentLines])
  IN IF i > Len(node.words)
     THEN IF Len(currentLines) > 0 THEN emitted ELSE chunks
     ELSE LET pushed == Append(currentLines, node.words[i])
          IN IF estimateTokens(pushed) >= maxTokens /\ Len(pushed) > 1
             THEN splitLargeNode(node, maxTokens, i + 1, i - 1, <<node.words[i]>>, emitted)
             ELSE splitLargeNode(node, maxTokens, i + 1, currentStartOffset, pushed, chunks)

NoNode == [type |-> "none"]

groupImports(imports) ==
  IF Len(imports) = 0
  THEN NoNode
  ELSE LET sorted == SortByLine(imports)
           text[k \in 0..Len(sorted)] == IF k = 0 THEN <<>> ELSE text[k - 1] \o sorted[k].words
       IN [type |-> "import", name |-> "", parent |-> "",
           lineStart |-> sorted[1].lineStart, lineEnd |-> sorted[Len(sorted)].lineEnd,
           words |-> text[Len(sorted)]]

UNMERGEABLE_TYPES == {"function", "method", "class", "type", "import"}

mergeSmallChunks(chunks, maxTokens) ==
  IF Len(chunks) <= 1
  THEN chunks
  ELSE LET canMerge(a, b) ==
             IF a.type \in UNMERGEABLE_TYPES \/ b.type \in UNMERGEABLE_TYPES THEN FALSE
             ELSE a.type = b.type
           startsAccumulator(chunk) ==
             estimateTokens(chunk.words) < MERGE_THRESHOLD /\ chunk.type \notin UNMERGEABLE_TYPES
           step(st, chunk) ==
             IF st.accumulator = NoNode
             THEN IF startsAccumulator(chunk)
                  THEN [st EXCEPT !.accumulator = chunk]
                  ELSE [st EXCEPT !.merged = Append(@, chunk)]
             ELSE IF /\ estimateTokens(chunk.words) < MERGE_THRESHOLD
                     /\ estimateTokens(st.accumulator.words) + estimateTokens(chunk.words)
                          <= maxTokens
                     /\ canMerge(st.accumulator, chunk)
                  THEN [st EXCEPT !.accumulator =
                          [st.accumulator EXCEPT !.lineEnd = chunk.lineEnd,
                                                 !.words = @ \o chunk.words,
                                                 !.name = IF @ # "" THEN @ ELSE chunk.name]]
                  ELSE IF startsAccumulator(chunk)
                       THEN [merged |-> Append(st.merged, st.accumulator), accumulator |-> chunk]
                       ELSE [merged |-> Append(Append(st.merged, st.accumulator), chunk),
                             accumulator |-> NoNode]
           loop[k \in 0..Len(chunks)] ==
             IF k = 0 THEN [merged |-> <<>>, accumulator |-> NoNode]
             ELSE step(loop[k - 1], chunks[k])
           end == loop[Len(chunks)]
       IN IF end.accumulator # NoNode THEN Append(end.merged, end.accumulator) ELSE end.merged

\* chunkFile on the node list itself
chunkFileNodes(nodes, maxTokens) ==
  IF Len(nodes) = 0
  THEN <<>>
  ELSE LET sorted == SortByLine(nodes)
           importNodes == SelectSeq(sorted, LAMBDA n : n.type = "import")
           nonImportNodes == SelectSeq(sorted, LAMBDA n : n.type # "import")
           classesWithMethods ==
             {n.parent : n \in {m \in Range(nonImportNodes) : m.type = "method" /\ m.parent # ""}}
           groupedImport == groupImports(importNodes)
           toChunk(node, piece) ==
             [type |-> IF node.type = "export" THEN "constant" ELSE node.type,
              name |-> node.name, parent |-> node.parent,
              lineStart |-> piece.lineStart, lineEnd |-> piece.lineEnd, words |-> piece.words]
           chunksOf(node) ==
             IF node.type = "class" /\ node.name # "" /\ node.name \in classesWithMethods
             THEN <<>>
             ELSE IF estimateTokens(node.words) <= maxTokens
             THEN <<toChunk(node, node)>>
             ELSE LET subChunks == splitLargeNode(node, maxTokens, 1, 0, <<>>, <<>>)
                  IN [i \in 1..Len(subChunks) |-> toChunk(node, subChunks[i])]
           raw[k \in 0..Len(nonImportNodes)] ==
             IF k = 0
             THEN IF groupedImport # NoNode THEN <<groupedImport>> ELSE <<>>
             ELSE raw[k - 1] \o chunksOf(nonImportNodes[k])
       IN mergeSmallChunks(SortByLine(raw[Len(nonImportNodes)]), maxTokens)

\* options.maxTokens: a small limit, or none (the default)
ChunkInit ==
  /\ FnWorld
  /\ \E layout \in UNION {[1..n -> [shape : {"import", "function", "largeFunction", "constant",
                                             "largeConstant", "classWithMethod"},
                                    gap : {0, 1}]] : n \in 1..MaxNodes},
        maxTokens \in {10, DEFAULT_MAX_TOKENS} :
       fn = [op |-> "chunkFile", pc |-> "call", nodes |-> LayoutNodes(layout, 1),
             maxTokens |-> maxTokens, chunks |-> <<>>]

ChunkCall ==
  /\ fn.op = "chunkFile"
  /\ fn.pc = "call"
  /\ fn' = [fn EXCEPT !.pc = "returned", !.chunks = chunkFileNodes(fn.nodes, fn.maxTokens)]
  /\ FnFrame

ChunkSpec == ChunkInit /\ [][ChunkCall]_vars

\* ------------------------------------------------------------------------
\* ConfigFileSpec: `config set` on .ctx/config.json of an initialized
\* project.  A JSON document is the set of its leaves, each a path of keys
\* with a scalar; arrays are scalars here.
\* ------------------------------------------------------------------------
Leaf(path, t, v) == [path |-> path, value |-> [t |-> t, v |-> v]]

DEFAULT_CONFIG ==
  { Leaf(<<"embedder", "provider">>, "string", "local"),
    Leaf(<<"embedder", "model">>, "string", "Xenova/all-MiniLM-L6-v2"),
    Leaf(<<"embedder", "dimensions">>, "number", "384"),
    Leaf(<<"search", "defaultLimit">>, "number", "10"),
    Leaf(<<"search", "strategies">>, "array", "[vector,fts,ast,path]"),
    Leaf(<<"search", "weights", "vector">>, "number", "1.0"),
    Leaf(<<"search", "weights", "fts">>, "number", "0.8"),
    Leaf(<<"search", "weights", "ast">>, "number", "0.9"),
    Leaf(<<"search", "weights", "path">>, "number", "0.7"),
    Leaf(<<"search", "weights", "dependency">>, "number", "0.6"),
    Leaf(<<"watch", "debounceMs">>, "number", "500"),
    Leaf(<<"watch", "ignored">>, "array", "[]"),
    Leaf(<<"llm", "provider">>, "null", "null"),
    Leaf(<<"llm", "model">>, "null", "null") }

\* what a config.json on disk may hold: any of these leaves, some of them
\* options of the tool, the others keys it does not know
ConfigLeaves ==
  { Leaf(<<"embedder", "provider">>, "string", "openai"),
    Leaf(<<"watch", "debounceMs">>, "number", "100"),
    Leaf(<<"embedder", "apiKeyEnv">>, "string", "KEY"),
    Leaf(<<"search", "weights", "custom">>, "number", "3"),
    Leaf(<<"custom">>, "string", "x"),
    Leaf(<<"plugins", "foo">>, "string", "y") }

IsPrefix(a, b) == Len(a) <= Len(b) /\ SubSeq(b, 1, Len(a)) = a

\* { ...defaults[prefix], ...partial[prefix] }: a key of partial replaces the
\* whole value of that key
Spread(defaults, partial, prefix) ==
  LET Under(doc) == {e \in doc : Len(e.path) > Len(prefix) /\ IsPrefix(prefix, e.path)}
  IN Under(partial) \cup
       {e \in Under(defaults) :
          \A q \in Under(partial) : q.path[Len(prefix) + 1] # e.path[Len(prefix) + 1]}

mergeWithDefaults(partial) ==
  Spread(DEFAULT_CONFIG, partial, <<"embedder">>)
    \cup (Spread(DEFAULT_CONFIG, partial, <<"search">>)
            \ {e \in DEFAULT_CONFIG \cup partial : IsPrefix(<<"search", "weights">>, e.path)})
    \cup Spread(DEFAULT_CONFIG, partial, <<"search", "weights">>)
    \cup Spread(DEFAULT_CONFIG, partial, <<"watch">>)
    \cup Spread(DEFAULT_CONFIG, partial, <<"llm">>)

\* JSON.stringify on write and JSON.parse on read: a document of string,
\* number, null and array leaves comes back as written
readConfig(exists, file) == IF ~exists THEN DEFAULT_CONFIG ELSE mergeWithDefaults(file)

parseValue(rawValue) ==
  IF rawValue = "null" THEN [t |-> "null", v |-> "null"]
  ELSE IF rawValue \in {"true", "false"} THEN [t |-> "boolean", v |-> rawValue]
  ELSE IF rawValue \in {"5", "0"} THEN [t |-> "number", v |-> rawValue]
  ELSE [t |-> "string", v |-> rawValue]

\* VALIDATION_RULES: TRUE when the key has no rule or the value passes it
Validate(key, value) ==
  LET num == IF value.v = "5" THEN 5 ELSE 0
  IN CASE key = <<"embedder", "provider">> ->
            value.t = "string" /\ value.v \in {"local", "voyage", "openai"}
       [] key = <<"embedder", "dimensions">> -> value.t = "number" /\ num > 0
       [] key = <<"search", "defaultLimit">> -> value.t = "number" /\ num > 0
       [] key = <<"watch", "debounceMs">> -> value.t = "number" /\ num >= 0
       [] key = <<"llm", "provider">> ->
            value.t = "null" \/ (value.t = "string" /\ value.v \in {"gemini", "openai", "anthropic"})
       [] OTHER -> TRUE

\* a scalar on the way to the key is replaced by an object, and the key's
\* old value by the new one
setNestedValue(obj, key, value) ==
  {e \in obj : ~IsPrefix(e.path, key) /\ ~IsPrefix(key, e.path)}
    \cup {[path |-> key, value |-> value]}

\* the dot-notation keys and the raw values given on the command line
ConfigFileInit ==
  /\ FnWorld
  /\ \E exists \in BOOLEAN, file \in SUBSET ConfigLeaves,
        key \in {<<"embedder", "provider">>, <<"embedder", "dimensions">>,
                 <<"search", "defaultLimit">>, <<"llm", "provider">>},
        rawValue \in {"voyage", "5", "0", "null"} :
       /\ ~exists => file = {}
       /\ fn = [op |-> "runConfigSet", pc |-> "call", exists |-> exists, file |-> file,
                key |-> key, rawValue |-> rawValue, written |-> file]

\* runConfigSet: throws on an invalid value (a missing file has then been
\* created with the defaults), else writes the changed configuration
RunConfigSet ==
  /\ fn.op = "runConfigSet"
  /\ fn.pc = "call"
  /\ LET cfg == readConfig(fn.exists, fn.file)
         value == parseValue(fn.rawValue)
     IN IF ~Validate(fn.key, value)
        THEN fn' = [fn EXCEPT !.pc = "threw",
                              !.written = IF fn.exists THEN fn.file ELSE DEFAULT_CONFIG]
        ELSE fn' = [fn EXCEPT !.pc = "returned",
                              !.written = setNestedValue(cfg, fn.key, value)]
  /\ FnFrame

ConfigFileSpec == ConfigFileInit /\ [][RunConfigSet]_vars

\* ------------------------------------------------------------------------
\* LoadSpec: the embedder singleton of a process (query.ts, watch.ts).
\* Callers of loadEmbedder interleave at its await; between two calls the
\* embedder section of a project's config.json may be rewritten.  An
\* embedder is a record of what createProjectEmbedder built it from; the
\* null instance has the provider "null".
\* ------------------------------------------------------------------------
MaxCallers == 2

\* the embedder sections a config.json goes through
LoadConfigs ==
  [provider : {"openai", "voyage"}, model : {"x", "voyage:x"}, dimensions : {256}]
    \cup {[provider |-> "openai", model |-> "x", dimensions |-> 512]}

\* the template literal of getCacheKey
getCacheKey(projectPath, cfg) ==
  projectPath \o ":" \o cfg.provider \o ":" \o cfg.model \o ":" \o ToString(cfg.dimensions)

\* createProjectEmbedder reads the configuration in its synchronous prefix
\* and builds the provider's embedder with the configured dimensions; the
\* model name is not handed to the provider.  (API keys are exported.)
createProjectEmbedder(projectPath, cfg) ==
  [provider |-> cfg.provider, dimensions |-> cfg.dimensions,
   builtFor |-> [projectPath |-> projectPath, config |-> cfg]]

LoadInit ==
  /\ FnWorld
  /\ \E c \in LoadConfigs :
       fn = [op |-> "loadEmbedder", embedderInstance |-> [provider |-> "null"], embedderKey |-> "null",
             configs |-> [p \in {"/p", "/p:openai"} |-> c],
             call |-> [i \in 1..MaxCallers |-> [pc |-> "idle"]]]

\* `ctx config set embedder.<key> <value>` in one of the projects
LoadConfigSet ==
  /\ fn.op = "loadEmbedder"
  /\ \E p \in DOMAIN fn.configs, key \in {"provider", "model", "dimensions"},
        c \in LoadConfigs :
       /\ c # fn.configs[p]
       /\ \A k \in {"provider", "model", "dimensions"} \ {key} : c[k] = fn.configs[p][k]
       /\ fn' = [fn EXCEPT !.configs[p] = c]
  /\ FnFrame

\* loadEmbedder up to its await: a hit returns the cached instance, a miss
\* starts createProjectEmbedder and suspends
LoadCall ==
  /\ fn.op = "loadEmbedder"
  /\ \E i \in 1..MaxCallers, projectPath \in DOMAIN fn.configs :
       LET cfg == fn.configs[projectPath]
           cacheKey == getCacheKey(projectPath, cfg)
       IN /\ fn.call[i].pc # "awaiting"
          /\ fn' = [fn EXCEPT !.call[i] =
                      IF fn.embedderInstance.provider # "null" /\ fn.embedderKey = cacheKey
                      THEN [pc |-> "returned", projectPath |-> projectPath, config |-> cfg,
                            hit |-> TRUE, ret |-> fn.embedderInstance]
                      ELSE [pc |-> "awaiting", projectPath |-> projectPath, config |-> cfg,
                            cacheKey |-> cacheKey,
                            created |-> createProjectEmbedder(projectPath, cfg)]]
  /\ FnFrame

\* the continuation after the await: instance and key are assigned and the
\* instance is returned in one synchronous run
LoadResume ==
  /\ fn.op = "loadEmbedder"
  /\ \E i \in 1..MaxCallers :
       /\ fn.call[i].pc = "awaiting"
       /\ fn' = [fn EXCEPT !.embedderInstance = fn.call[i].created,
                           !.embedderKey = fn.call[i].cacheKey,
                           !.call[i] = [pc |-> "returned",
                                        projectPath |-> fn.call[i].projectPath,
                                        config |-> fn.call[i].config,
                                        hit |-> FALSE, ret |-> fn.call[i].created]]
  /\ FnFrame

LoadSpec == LoadInit /\ [][LoadConfigSet \/ LoadCall \/ LoadResume]_vars

\* ------------------------------------------------------------------------
\* RetrySpec: one call of fetchWithRetry against a server whose answers are
\* drawn in advance: an HTTP status per request, or 0 when fetch rejects.
\* ------------------------------------------------------------------------
MaxResponses == 5

MAX_RETRIES == 3
BASE_DELAY_MS == 500

\* the retry condition of the loop body
shouldRetry_Always(status, attempt) == status = 429

shouldRetry(status, attempt) == status = 429 /\ attempt < MAX_RETRIES

RetryInit ==
  /\ FnWorld
  /\ \E script \in [1..MaxResponses -> {0, 200, 429, 500}] :
       fn = [op |-> "fetchWithRetry", pc |-> "fetch", attempt |-> 0, script |-> script,
             requests |-> 0, delays |-> <<>>]

\* `await fetch(url, init)` settles and the loop body runs up to its next
\* await, return or throw
RetryFetch ==
  /\ fn.op = "fetchWithRetry"
  /\ fn.pc = "fetch"
  /\ fn.attempt <= MAX_RETRIES
  /\ fn.requests < MaxResponses
  /\ LET status == fn.script[fn.requests + 1]
     IN fn' = [fn EXCEPT !.requests = @ + 1,
                         !.pc = IF status = 0 THEN "thrown"
                                ELSE IF status = 200 THEN "returned"
                                ELSE IF shouldRetry(status, fn.attempt) THEN "sleep"
                                ELSE "thrown",
                         !.delays = IF status # 0 /\ status # 200
                                       /\ shouldRetry(status, fn.attempt)
                                    THEN Append(@, BASE_DELAY_MS * 2 ^ fn.attempt)
                                    ELSE @]
  /\ FnFrame

\* the setTimeout of the backoff fires: `continue` runs attempt++
RetryWake ==
  /\ fn.op = "fetchWithRetry"
  /\ fn.pc = "sleep"
  /\ fn' = [fn EXCEPT !.attempt = @ + 1,
                      !.pc = IF fn.attempt + 1 <= MAX_RETRIES THEN "fetch" ELSE "thrown"]
  /\ FnFrame

\* responses arrive and timers fire
RetrySpec ==
  /\ RetryInit
  /\ [][RetryFetch \/ RetryWake]_vars
  /\ WF_vars(RetryFetch)
  /\ WF_vars(RetryWake)

\* ------------------------------------------------------------------------
\* WatcherSpec: one handle of createWatcher (watcher.ts), used as runWatch
\* uses it: start(), file events, stop().  Time is counted in ticks; a timer
\* fires at or after its due time.  chokidar calls the add/change/unlink
\* listeners for paths its `ignored` option lets through while the
\* FSWatcher is open; close() detaches the listeners when it is called.
\* fn.events and fn.batches are history: the accepted events and the
\* onChange calls.
\* ------------------------------------------------------------------------
MaxTime == 3
MaxEvents == 2
MaxDebounce == 2

WatcherInit ==
  /\ FnWorld
  /\ \E debounceMs \in 1..MaxDebounce :
       fn = [op |-> "watcher", debounceMs |-> debounceMs, now |-> 0, watcher |-> "null",
             pendingChanges |-> <<>>, debounceTimer |-> [armed |-> FALSE, due |-> 0],
             stopped |-> FALSE, discarded |-> 0, events |-> <<>>, batches |-> <<>>]

\* start(): watch(".") and the listeners
WatcherStart ==
  /\ fn.op = "watcher"
  /\ fn.watcher = "null"
  /\ ~fn.stopped
  /\ fn' = [fn EXCEPT !.watcher = "open"]
  /\ FnFrame

WatcherTick ==
  /\ fn.op = "watcher"
  /\ fn.now < MaxTime
  /\ fn' = [fn EXCEPT !.now = @ + 1]
  /\ FnFrame

\* a file is added, changed or removed and chokidar calls the listener:
\* handleEvent, with scheduleFlush
handleEvent_KeepFirst(type, filePath) ==
  LET isWatchedFile == filePath \in {"a.ts", "b.ts", "node_modules/x.ts"}
      has == \E i \in 1..Len(fn.pendingChanges) : fn.pendingChanges[i].path = filePath
      change == [type |-> type, path |-> filePath]
  IN IF ~isWatchedFile
     THEN UNCHANGED fn
     ELSE fn' = [fn EXCEPT
                   !.pendingChanges = IF has THEN @ ELSE Append(@, change),
                   !.debounceTimer = [armed |-> TRUE, due |-> fn.now + fn.debounceMs],
                   !.events = Append(@, [type |-> type, path |-> filePath, at |-> fn.now])]

handleEvent_NoReschedule(type, filePath) ==
  LET isWatchedFile == filePath \in {"a.ts", "b.ts", "node_modules/x.ts"}
      has == \E i \in 1..Len(fn.pendingChanges) : fn.pendingChanges[i].path = filePath
      change == [type |-> type, path |-> filePath]
  IN IF ~isWatchedFile
     THEN UNCHANGED fn
     ELSE fn' = [fn EXCEPT
                   !.pendingChanges =
                     IF has THEN [i \in 1..Len(@) |-> IF @[i].path = filePath THEN change ELSE @[i]]
                     ELSE Append(@, change),
                   !.debounceTimer = IF @.armed THEN @
                                     ELSE [armed |-> TRUE, due |-> fn.now + fn.debounceMs],
                   !.events = Append(@, [type |-> type, path |-> filePath, at |-> fn.now])]

handleEvent(type, filePath) ==
  LET isWatchedFile == filePath \in {"a.ts", "b.ts", "node_modules/x.ts"}
      has == \E i \in 1..Len(fn.pendingChanges) : fn.pendingChanges[i].path = filePath
      change == [type |-> type, path |-> filePath]
  IN IF ~isWatchedFile
     THEN UNCHANGED fn
     ELSE fn' = [fn EXCEPT
                   \* Map.set keeps the position of a key it already holds
                   !.pendingChanges =
                     IF has THEN [i \in 1..Len(@) |-> IF @[i].path = filePath THEN change ELSE @[i]]
                     ELSE Append(@, change),
                   \* scheduleFlush: clearTimeout, setTimeout(flush, debounceMs)
                   !.debounceTimer = [armed |-> TRUE, due |-> fn.now + fn.debounceMs],
                   !.events = Append(@, [type |-> type, path |-> filePath, at |-> fn.now])]

FileEvent ==
  /\ fn.op = "watcher"
  /\ fn.watcher = "open"
  /\ Len(fn.events) < MaxEvents
  /\ fn.now + fn.debounceMs <= MaxTime
  /\ \E type \in {"add", "change", "unlink"},
        filePath \in {"a.ts", "b.ts", "image.png", "node_modules/x.ts"} :
       LET isIgnored == filePath = "node_modules/x.ts"
       IN /\ ~isIgnored
          /\ handleEvent(type, filePath)
  /\ FnFrame

\* the debounce timer fires: flush
flush_Keep ==
  /\ fn.op = "watcher"
  /\ fn.debounceTimer.armed
  /\ fn.now >= fn.debounceTimer.due
  /\ fn' = [fn EXCEPT
              !.debounceTimer.armed = FALSE,
              !.batches = IF fn.pendingChanges = <<>> THEN @
                          ELSE Append(@, [at |-> fn.now, n |-> Len(fn.events),
                                          changes |-> fn.pendingChanges,
                                          afterStop |-> fn.stopped])]
  /\ FnFrame

flush ==
  /\ fn.op = "watcher"
  /\ fn.debounceTimer.armed
  /\ fn.now >= fn.debounceTimer.due
  /\ fn' = [fn EXCEPT
              !.debounceTimer.armed = FALSE,
              !.pendingChanges = <<>>,
              !.batches = IF fn.pendingChanges = <<>> THEN @
                          ELSE Append(@, [at |-> fn.now, n |-> Len(fn.events),
                                          changes |-> fn.pendingChanges,
                                          afterStop |-> fn.stopped])]
  /\ FnFrame

\* stop() up to `await watcher.close()`
WatcherStop_KeepTimer ==
  /\ fn.op = "watcher"
  /\ fn.watcher = "open"
  /\ fn' = [fn EXCEPT !.discarded = Len(fn.pendingChanges),
                      !.watcher = "closing",
                      !.stopped = TRUE]
  /\ FnFrame

WatcherStop ==
  /\ fn.op = "watcher"
  /\ fn.watcher = "open"
  /\ fn' = [fn EXCEPT !.debounceTimer.armed = FALSE,
                      !.pendingChanges = <<>>,
                      !.discarded = Len(fn.pendingChanges),
                      !.watcher = "closing",
                      !.stopped = TRUE]
  /\ FnFrame

\* the promise of close() resolves: watcher = null
WatcherClosed ==
  /\ fn.op = "watcher"
  /\ fn.watcher = "closing"
  /\ fn' = [fn EXCEPT !.watcher = "closed"]
  /\ FnFrame

\* time passes and due timers fire
WatcherSpec ==
  /\ WatcherInit
  /\ [][WatcherStart \/ WatcherTick \/ FileEvent \/ flush \/ WatcherStop \/ WatcherClosed]_vars
  /\ WF_vars(WatcherTick)
  /\ WF_vars(flush)

\* ------------------------------------------------------------------------
\* Properties
\* ------------------------------------------------------------------------

\* C1: upsertFile on a path that already has a file row returns the id of
\* that row, also when other rows were inserted since the first upsert, and
\* the store keeps exactly one row for the path.  (StoreSpec)
C1_UpsertReturnsExistingId ==
  (api.op = "upsertFile" /\ api.oldId # 0) =>
    /\ api.ret = api.oldId
    /\ Cardinality(getFile(store, api.path)) = 1
    /\ \A f \in getFile(store, api.path) : f.id = api.oldId

\* chunks a reader sees that the current run produced from path p
NewChunksOf(p) == {c \in ReaderView.chunks : c.src = p /\ c.id > ix.seq0}

\* chunks in the store that an earlier run or batch produced from path p
OldChunksOf(p) == {c \in store.chunks : c.src = p /\ c.id <= ix.seq0}

\* C2: when a store write fails while a file is processed (in
\* deleteChunksByFile, upsertFile or insertChunks) the store holds all of the
\* chunks the run produced for a file or none of them.  (Spec)
C2_WholeFileReplace ==
  (ix.pc = "failed" /\ ix.err = "DbWriteFailed"
     /\ ix.failedAt \in {"file", "upsert", "chunks"}) =>
    \A p \in Paths : Cardinality(NewChunksOf(p)) \in {0, ix.produced[p]}

\* C3: the store writes of one re-index call are never interleaved with the
\* store writes of another call on the same store: no call writes again
\* after another call has written in between.  (WatchSpec)
C3_WritesSerialized == wlog.last \notin wlog.preempted

\* C4: a connection is open on an existing store only if the dimensions it
\* was opened with are the dimensions the store was created with.  (GateSpec)
C4_OpenRejectsDimensionMismatch ==
  conn["index"].open => conn["index"].dim = store.vecDim

\* C5: right after deleteFile(p) the path has no file row, no chunk of the
\* old file remains, no vector of its chunks is returned by the KNN search,
\* no dependency row has an endpoint among its chunks and no FTS hit on its
\* text is one of its chunks.  (StoreSpec)
C5_DeleteFileCascades ==
  api.op = "deleteFile" =>
    /\ getFile(store, api.path) = {}
    /\ \A c \in store.chunks : c.id \notin api.oldChunks
    /\ api.oldId # 0 => ChunkIdsByFile(store, api.oldId) = {}
    /\ searchVectors(store) \cap api.oldChunks = {}
    /\ \A d \in store.deps : d.source \notin api.oldChunks /\ d.target \notin api.oldChunks
    /\ \A t \in api.oldText : searchFTS(store, t) \cap api.oldChunks = {}

C5_Witness ==
  /\ api.op = "deleteFile"
  /\ api.oldChunks # {}
  /\ api.hadVec
  /\ api.hadDep

\* C6: every vector in the store is keyed by the id of a chunk that exists.
\* (WatchSpec)
C6_VectorsKeyedByChunks ==
  \A v \in store.vectors : \E c \in store.chunks : c.id = v

\* C7: a reader sees none or all of the vectors of a run's batch, and after
\* a failed insertVector none of the batch's vectors is in the store.  (Spec)
C7_VectorBatchAtomic ==
  /\ ReaderView.vectors \cap Range(ix.acm) \in {{}, Range(ix.acm)}
  /\ (ix.pc = "failed" /\ ix.failedAt = "vectors") =>
       store.vectors \cap Range(ix.acm) = {}

C7_Witness ==
  /\ ix.pc = "failed"
  /\ ix.failedAt = "vectors"
  /\ Len(ix.acm) >= 2
  /\ ix.vi >= 2

\* C8: during an index run the store never holds a chunk an earlier run
\* produced from a file in added or modified together with a chunk this run
\* produced from the same file.  (Spec)
C8_OldRemovedBeforeNew ==
  \A p \in ix.added \cup ix.modified :
    OldChunksOf(p) = {} \/ NewChunksOf(p) = {}

SecondRunQuiet ==
  /\ ix.added = {}
  /\ ix.modified = {}
  /\ ix.deleted = {}
  /\ ix.unchanged = ix.discovered
  /\ ~ix.wrote

C10_EmbedderGate ==
  /\ (getIndexEmbedder(store) # NoEmbedder /\ ix.pc \notin IxRest \cup {"gate"}) =>
       ix.cfg = getIndexEmbedder(store)
  /\ (ix.pc = "failed" /\ ix.err = "EmbedderMismatch") =>
       /\ ix.failedAt = "gate"
       /\ ~ix.wrote
       /\ ix.cfg # getIndexEmbedder(store)

C10_Witness ==
  /\ ix.pc = "failed"
  /\ ix.err = "EmbedderMismatch"
  /\ ix.cfg = CfgDims
  /\ store.chunks # {}

\* C11: when the embedder fails during an index run, none of the run's
\* vectors is stored, and every file the run upserted still has its file
\* row and all of its new chunks, each of them found by an FTS match on its
\* text and joined to a file row.  (Spec)
C11_EmbedFailureConsistent ==
  (ix.pc = "failed" /\ ix.err = "EmbedderFailed") =>
    /\ \A v \in store.vectors : v <= ix.seq0
    /\ \A p \in Paths :
         ix.produced[p] >= 0 =>
           /\ getFile(store, p) # {}
           /\ Cardinality(NewChunksOf(p)) = ix.produced[p]
           /\ \A c \in NewChunksOf(p) :
                /\ c.id \in searchFTS(store, c.text)
                /\ \E f \in store.files : f.id = c.fileId

C11_Witness ==
  /\ ix.pc = "failed"
  /\ ix.err = "EmbedderFailed"
  /\ \E p \in Paths : ix.produced[p] >= 2
  /\ store.vectors # {}

\* C12: when an operation that opened the store has returned or thrown, its
\* store handle is closed: runInit at rest, and a runWatch session whose
\* start failed or whose stop() has returned or thrown.  (SessionSpec)
C12_StoreReleased ==
  /\ ix.pc \in IxRest => ~conn["index"].open
  /\ wlog.phase \in {"startFailed", "stopped", "stopFailed"} => ~conn["watch"].open

\* The dependency graph of a call, read off the table independently of the
\* traversal: the chunks within k edges of the start chunk, and the level
\* of a chunk (its shortest distance minus one).
RECURSIVE TraceWithin(_, _, _, _)
TraceWithin(deps, direction, chunkId, k) ==
  IF k = 0
  THEN {chunkId}
  ELSE LET S == TraceWithin(deps, direction, chunkId, k - 1)
       IN S \cup {n \in 1..(MaxTraceNode + MaxTraceDepth) :
                    \E i \in 1..Len(deps) :
                      IF direction = "imports"
                      THEN deps[i].source \in S /\ deps[i].target = n
                      ELSE deps[i].target \in S /\ deps[i].source = n}

TraceLevelOf(n) ==
  CHOOSE d \in 0..Len(fn.deps) :
    /\ n \in TraceWithin(fn.deps, fn.direction, fn.chunkId, d + 1)
    /\ n \notin TraceWithin(fn.deps, fn.direction, fn.chunkId, d)

TraceReturned == fn.op = "dependencyTrace" /\ fn.pc = "returned"

TraceIds == [i \in 1..Len(fn.results) |-> fn.results[i].chunkId]

\* C13: every returned chunk of depth level d carries the score
\* max(0, 1.0 - 0.2 d), so every returned score lies in [0, 1] (scores in
\* tenths: max(0, 10 - 2 d) in 0..10).  (TraceSpec)
C13_DepTraceScores ==
  TraceReturned =>
    \A i \in 1..Len(fn.results) :
      LET clamp == DEPTH_SCORE_BASE - DEPTH_SCORE_DECAY * TraceLevelOf(fn.results[i].chunkId)
      IN /\ fn.results[i].score = (IF clamp < 0 THEN 0 ELSE clamp)
         /\ fn.results[i].score \in 0..DEPTH_SCORE_BASE

\* C14: a trace returns, never returns the start chunk, and returns exactly
\* the chunks whose shortest distance from the start along the direction is
\* between 1 and depth, each of them once.  (TraceSpec)
C14_DepTraceShortest ==
  TraceReturned =>
    /\ \A i \in 1..Len(TraceIds) : TraceIds[i] # fn.chunkId
    /\ \A i, j \in 1..Len(TraceIds) : TraceIds[i] = TraceIds[j] => i = j
    /\ Range(TraceIds) =
         TraceWithin(fn.deps, fn.direction, fn.chunkId, fn.depth) \ {fn.chunkId}

\* a returned trace over a graph with a cycle through the start chunk, asked
\* for more levels than the cycle has: the visited set ended the traversal
C14_Witness ==
  /\ TraceReturned
  /\ fn.direction = "imports"
  /\ Len(fn.results) >= 2
  /\ fn.depth > Len(fn.results)
  /\ \E i \in 1..Len(fn.deps) :
       fn.deps[i].target = fn.chunkId /\ fn.deps[i].source \in Range(TraceIds)

\* the order in which the traversal first discovers the chunks: level by
\* level, each level in the order of its nextFrontier
RECURSIVE DiscoveryOrder(_, _, _)
DiscoveryOrder(d, frontier, visited) ==
  IF d >= fn.depth
  THEN <<>>
  ELSE LET r == ScanFrontier(fn.deps, fn.direction, frontier, visited, <<>>)
       IN IF r.nextFrontier = <<>>
          THEN <<>>
          ELSE r.nextFrontier \o DiscoveryOrder(d + 1, r.nextFrontier, r.visited)

\* C15: a trace returns the chunks in BFS discovery order: level d before
\* level d+1, and within a level in the order of first discovery.
\* (TraceSpec)
C15_DepTraceDiscoveryOrder ==
  TraceReturned =>
    /\ \A i, j \in 1..Len(TraceIds) :
         i < j => TraceLevelOf(TraceIds[i]) <= TraceLevelOf(TraceIds[j])
    /\ TraceIds = DiscoveryOrder(0, <<fn.chunkId>>, {fn.chunkId})

FuseReturned == fn.op = "fusion" /\ fn.pc = "returned"

\* C16: with non-negative weights and a limit of at least 1, every score
\* returned by fusionMerge and by fusionMergeWithPathBoost lies in [0, 1] and
\* the first result has score exactly 1.0 unless all scores are zero.
\* (FuseSpec)
C16_FusedScoresNormalized ==
  LET Normalized(results) ==
        /\ \A i \in 1..Len(results) :
             /\ ~RatLess(results[i].score, RatZero)
             /\ ~RatLess(RatOne, results[i].score)
        /\ results # <<>> =>
             \/ results[1].score = RatOne
             \/ \A i \in 1..Len(results) : results[i].score = RatZero
  IN FuseReturned => Normalized(fn.merged) /\ Normalized(fn.boosted)

\* a call whose path boost and penalties changed the top result
C16_Witness ==
  /\ FuseReturned
  /\ fn.pathBoostTerms # <<>>
  /\ Len(fn.boosted) >= 2
  /\ fn.boosted[1].chunkId # fn.merged[1].chunkId
  /\ fn.boosted[1].score = RatOne
  /\ RatLess(RatZero, fn.boosted[2].score)
  /\ RatLess(fn.boosted[2].score, RatOne)

\* none of the adjustments that do not depend on the boost terms applies to
\* the results the strategies of the call returned
NoAdjustment ==
  LET inputs == Range(fn.strategyResults[1].results) \cup Range(fn.strategyResults[2].results)
  IN /\ \A r \in inputs :
          /\ r.type # "import"
          /\ ~isTestFilePath(r.filePath)
          /\ r.lineEnd - r.lineStart + 1 > SMALL_SNIPPET_MAX_LINES
          /\ ~isPublicApiSymbol(r)
     /\ \A r1, r2 \in inputs : r1.filePath = r2.filePath => r1 = r2

\* C17 as stated: with an empty boost-term list fusionMergeWithPathBoost
\* returns the same list as fusionMerge, for any strategy results.
\* (FuseSpec)
C17_EmptyTermsLikeFusionMerge_Original ==
  (FuseReturned /\ fn.pathBoostTerms = <<>>) => fn.boosted = fn.merged

\* C17: with an empty boost-term list fusionMergeWithPathBoost returns the
\* same list as fusionMerge (same chunks, order and scores) when no result
\* is an import chunk, in a test file, a snippet of at most three lines or
\* a public API symbol, and no two results come from the same file.
\* (FuseSpec)
C17_EmptyTermsLikeFusionMerge ==
  (FuseReturned /\ fn.pathBoostTerms = <<>> /\ NoAdjustment) => fn.boosted = fn.merged

C17_Witness ==
  /\ FuseReturned
  /\ fn.pathBoostTerms = <<>>
  /\ NoAdjustment
  /\ Len(fn.boosted) >= 2
  /\ RatLess(fn.boosted[2].score, RatOne)
  /\ RatLess(RatZero, fn.boosted[2].score)

\* C18: the weight a strategy carries into fusion is the base weight
\* configured for it in search.weights times the classifier's multiplier for
\* it on the query.  (WeightSpec)
C18_EffectiveWeightFromConfig ==
  (fn.op = "runStrategies" /\ fn.pc = "returned") =>
    \A s \in {"vector", "fts", "ast", "path", "dependency"} :
      fn.effectiveWeights[s] = fn.searchWeights[s] * classifyQuery(fn.query).multipliers[s]

\* C19: the chunks chunkFile returns for one file have lineStart <= lineEnd
\* and pairwise disjoint line ranges.  (ChunkSpec)
C19_ChunksDoNotOverlap ==
  (fn.op = "chunkFile" /\ fn.pc = "returned") =>
    /\ \A i \in 1..Len(fn.chunks) : fn.chunks[i].lineStart <= fn.chunks[i].lineEnd
    /\ \A i, j \in 1..Len(fn.chunks) :
         i # j => \/ fn.chunks[i].lineEnd < fn.chunks[j].lineStart
                  \/ fn.chunks[j].lineEnd < fn.chunks[i].lineStart

\* C20: a config set that writes config.json keeps every key of the file the
\* tool does not recognise, at every nesting level including the top level,
\* with its value.  (ConfigFileSpec)
C20_UnknownKeysPreserved ==
  (fn.op = "runConfigSet" /\ fn.pc = "returned") =>
    \A e \in fn.file : (\A o \in DEFAULT_CONFIG : o.path # e.path) => e \in fn.written

\* C21: the embedder cache is keyed by (project path, provider, model,
\* dimensions): under any interleaving of loadEmbedder calls the cached key
\* is the key of the configuration the cached instance was built from, and
\* a caller receives an embedder built from the project path and the
\* configuration it called with.  (LoadSpec)
C21_EmbedderCacheKeyed ==
  fn.op = "loadEmbedder" =>
    /\ fn.embedderInstance.provider # "null" =>
         fn.embedderKey = getCacheKey(fn.embedderInstance.builtFor.projectPath,
                                      fn.embedderInstance.builtFor.config)
    /\ \A i \in 1..MaxCallers :
         fn.call[i].pc = "returned" =>
           fn.call[i].ret.builtFor = [projectPath |-> fn.call[i].projectPath,
                                      config |-> fn.call[i].config]

\* C22: a request that keeps receiving HTTP 429 is sent at most 4 times,
\* with waits of 500, 1000 and 2000 ms before the retries, and then fails;
\* every call of fetchWithRetry ends.  (RetrySpec)
C22_RetriesBounded ==
  /\ [](fn.op = "fetchWithRetry" =>
          /\ fn.requests <= MAX_RETRIES + 1
          /\ Len(fn.delays) <= 3
          /\ \A i \in 1..Len(fn.delays) : fn.delays[i] = <<500, 1000, 2000>>[i]
          /\ Len(fn.delays) =
               IF fn.pc \in {"returned", "thrown"} THEN fn.requests - 1 ELSE fn.requests
          /\ (fn.pc = "thrown" /\ \A i \in 1..fn.requests : fn.script[i] = 429) =>
               fn.requests = MAX_RETRIES + 1)
  /\ <>(fn.op = "fetchWithRetry" /\ fn.pc \in {"returned", "thrown"})

\* the fourth 429 in a row has been received and the call has failed
C22_Witness ==
  /\ fn.op = "fetchWithRetry"
  /\ fn.pc = "thrown"
  /\ fn.requests = 4
  /\ \A i \in 1..4 : fn.script[i] = 429

C24_DebouncedIntoOneBatch ==
  fn.op = "watcher" =>
    /\ \A i \in 1..(Len(fn.events) - 1) :
         fn.events[i + 1].at - fn.events[i].at < fn.debounceMs =>
           \A k \in 1..Len(fn.batches) : fn.batches[k].n # i
    /\ \A k \in 1..Len(fn.batches) :
         fn.batches[k].at - fn.events[fn.batches[k].n].at >= fn.debounceMs

\* two files changed at different times within the debounce window and one
\* batch delivered both
C24_Witness ==
  /\ fn.op = "watcher"
  /\ \E k \in 1..Len(fn.batches) :
       /\ fn.batches[k].n = 2
       /\ Len(fn.batches[k].changes) = 2
       /\ fn.events[1].at < fn.events[2].at
       /\ fn.events[2].at - fn.events[1].at < fn.debounceMs

C30_LatestTypePerPath ==
  fn.op = "watcher" =>
    \A k \in 1..Len(fn.batches) :
      LET from == IF k = 1 THEN 0 ELSE fn.batches[k - 1].n
          changes == fn.batches[k].changes
          eventsOf(p) == {j \in (from + 1)..fn.batches[k].n : fn.events[j].path = p}
      IN /\ \A c, d \in 1..Len(changes) : changes[c].path = changes[d].path => c = d
         /\ \A c \in 1..Len(changes) :
              /\ eventsOf(changes[c].path) # {}
              /\ \E j \in eventsOf(changes[c].path) :
                   /\ \A l \in eventsOf(changes[c].path) : l <= j
                   /\ changes[c].type = fn.events[j].type

\* a file was added and then removed before the flush: the batch holds the
\* unlink only
C30_Witness ==
  /\ fn.op = "watcher"
  /\ \E k \in 1..Len(fn.batches) :
       /\ fn.batches[k].n = 2
       /\ Len(fn.batches[k].changes) = 1
       /\ fn.events[1].type = "add"
       /\ fn.events[2].type = "unlink"

\* C25: when re-index batches that touch the same file overlap, the store
\* ends up with the chunks of one complete re-index of the file: once all
\* batches have ended, the chunks produced from a path are those of one
\* chunking of the file, not of two.  (WatchSpec)
C25_OverlapKeepsOneReindex ==
  (wb # <<>> /\ \A b \in DOMAIN wb : wb[b].pc = "done") =>
    \A p \in Paths :
      Cardinality({c \in store.chunks : c.src = p})
        \in {0} \cup {Len(chunkFile(content)) : content \in WatchContents}

\* C26: when an index run has completed, every stored chunk belongs to the
\* file row of the path it was produced from.  (Spec)
C26_ChunksUnderOwnFile ==
  ix.pc = "done" =>
    \A c \in store.chunks :
      \E f \in store.files : f.id = c.fileId /\ f.path = c.src

\* C27: after stop() has closed the store no re-index batch runs a store
\* statement: no step of a batch is the getFile at the head of its loop or
\* the upsertFile after hashFile on the closed handle.  (SessionSpec)
C27_NoStoreUseAfterClose ==
  [][\A b \in DOMAIN wb :
       DbClosed =>
         /\ ~(wb[b].pc = "loop" /\ wb[b].changes # <<>> /\ wb'[b].pc = "done")
         /\ ~(wb[b].pc = "hash" /\ fs[Head(wb[b].changes).path] # NoFile
                /\ wb'[b].pc = "done")]_vars

\* C28: chunks left without vectors by an earlier run get their vectors
\* from a later run with embedding enabled and a working embedder: when
\* such a run has completed every stored chunk has a vector.  (Spec)
C28_LaterRunEmbedsMissing ==
  (ix.pc = "done" /\ ~ix.skip) =>
    \A c \in store.chunks : c.id \in store.vectors

====
